---- MODULE Spec2Model ----
(***************************************************************************)
(* Job-portal application lifecycle, application submission and interview  *)
(* access gate, modelled from the React components and the SQL schema.     *)
(*                                                                         *)
(* The remote store (applications, interviews, notifications) is shared;   *)
(* every browser session keeps its own loaded copy of the rows and its own *)
(* component state.  A handler is split at its awaited remote calls: one   *)
(* action is one remote call taking effect together with the code that     *)
(* runs on its return, up to the next call.  Every remote call either      *)
(* succeeds or returns an error.  A session runs one handler at a time.    *)
(***************************************************************************)
EXTENDS Integers, Sequences, FiniteSets, Bags, TLC

\* ------------------------------------------------------------------ bounds
MaxNotifications == 3
MaxInterviews == 2
MaxPasscodeLen == 2    \* longest text typed into a passcode field
MaxLead == 33          \* minutes before scheduled_date at which the clock starts
MaxTail == 63          \* minutes after scheduled_date at which the clock stops
MaxDate == 1           \* scheduled_date ranges over 0..MaxDate
MaxAuthOps == 2        \* calls of signUp, signIn and signOut in one behaviour

Students == {"s1", "s2"}
Jobs == {"j1"}
AdminSessions == {"a1", "a2"}
StudentSessions == {"t1", "t2"}
InterviewIds == {"i1", "i2"}
\* Characters of a passcode: a lower-case letter, its upper case, a blank.
Chars == {"a", "A", " "}
\* Passcodes the schedule form stores (a required text input: any text that
\* is not empty): typed in lower case, with a trailing blank, all blank.
StoredPasscodes == {<<"a">>, <<"A", " ">>, <<" ">>}

\* --------------------------------------------- constants of InterviewAccess
InterviewLength == 60   \* addMinutes(interviewTime, 60)
LiveLead == 15          \* addMinutes(interviewTime, -15)
UpcomingLead == 30      \* addMinutes(interviewTime, -30)

\* ------------------------------------------------------------ the schema
StatusValues == {"pending", "shortlisted", "rejected", "interview_scheduled"}
DefaultStatus == "pending"
DefaultInterviewStatus == "scheduled"
InterviewStatusValues == {"scheduled", "completed", "cancelled"}

\* Messages the views store or insert.
SubmittedTitle == "Application Submitted Successfully!"
SubmittedMessage == "Your application has been submitted successfully. You will be notified of any updates."
ScheduledMessage == "Your interview has been scheduled. Check your dashboard for meeting details."
\* The errors the store returns: a unique violation (SQLSTATE 23505) with its
\* message, or any other failure of the request.
UniqueViolationError == [code |-> "23505",
                         message |-> "duplicate key value violates unique constraint"]
RequestFailedError == [code |-> "other", message |-> "request failed"]
AlreadyAppliedMessage == "already applied"

VARIABLES
  applications,     \* rows of table applications, in insertion order; id = index
  interviews,       \* rows of table interviews, in insertion order
  notifications,    \* rows of table notifications, a bag: equal rows are counted
  adminApps,        \* AdminDashboard.applications of each admin session
  adminCall,        \* the admin handler in flight in each session (edge: its
                    \* status write followed an edge of the lifecycle)
  schedForm,        \* InterviewScheduler state of each admin session
  sessionProfile,   \* profile.id of each student session
  studentApps,      \* StudentDashboard.applications of each student session
  studentForm,      \* StudentDashboard/ApplicationForm state of each session
  studentCall       \* ApplicationForm.handleSubmit in flight in each session

lifeVars == <<applications, interviews, notifications, adminApps, adminCall,
              schedForm, sessionProfile, studentApps, studentForm, studentCall>>

\* InterviewAccess: the component state of one student session.
VARIABLES
  passcode,            \* interview.passcode of each loaded interview
  passcodeInputs,      \* passcodeInputs: what the field of each interview holds
  verifiedInterviews,  \* verifiedInterviews
  opened,              \* the interviews whose meeting_url window.open was given
  everMatched,         \* the interviews for which a matching passcode was typed
  everMatchedText      \* ... a matching passcode that was not the empty text

accessVars == <<passcode, passcodeInputs, verifiedInterviews, opened, everMatched,
                everMatchedText>>

\* InterviewAccess.getInterviewStatus of one interview, as time passes.
VARIABLES
  ivStatus,         \* interview.status
  ivDate,           \* interview.scheduled_date, in minutes
  clockNow,         \* new Date(), in minutes
  renderedAt,       \* the instant of the last render
  classification    \* what getInterviewStatus returned at the last render

clockVars == <<ivStatus, ivDate, clockNow, renderedAt, classification>>

\* useAuth: one instance of the hook, the provider's session and the table
\* profiles, for one identity.
VARIABLES
  version,          \* which useAuth is running: src/hooks/useAuth.ts or the
                    \* earlier one
  identity,         \* the identity of the provider: its user_metadata
  authSession,      \* the provider holds a session for the identity
  profiles,         \* rows of table profiles, in insertion order
  authState,        \* useState<AuthState>: user, profile, loading, error
  mounted,          \* let mounted (and the subscription)
  initRun,          \* getInitialSession: where it is
  events,           \* session-change events not yet delivered to the callback
  handlers,         \* running session-change callbacks
  authOp,           \* signUp / signIn / signOut in flight
  authResult,       \* what the last finished operation returned
  opsStarted,       \* operations called so far
  lateUpdates,      \* who called setState after teardown
  owed              \* successful signIn / signOut whose state is yet to be
                    \* published

authVars == <<version, identity, authSession, profiles, authState, mounted,
              initRun, events, handlers, authOp, authResult, opsStarted,
              lateUpdates, owed>>

\* NotificationCenter of one user, in two browser sessions, and the rows of
\* table notifications it shows.
VARIABLES
  ncRows,           \* the user's rows of table notifications, by id
  ncLoaded,         \* StudentDashboard's notifications state of each session:
                    \* the prop of NotificationCenter
  ncFilter,         \* useState<'all' | 'unread'> of each session
  ncLast            \* the last handler that ran: the write it issued

centerVars == <<ncRows, ncLoaded, ncFilter, ncLast>>

\* The card of one interview in InterviewAccess, as time passes.
VARIABLES
  lastJoin          \* the last call of joinMeeting: whether it opened the URL

panelVars == <<lastJoin>>

viewVars == <<centerVars, panelVars>>

otherVars == <<accessVars, clockVars, authVars, viewVars>>

vars == <<lifeVars, accessVars, clockVars, authVars, viewVars>>

\* ----------------------------------------------------------------- helpers
NoApp == [id |-> 0, student_id |-> ""]
IdleCall == [pc |-> "idle", app |-> NoApp, status |-> "", edge |-> FALSE]

\* The transitions of the application lifecycle.
LifecycleEdges == {<<"pending", "shortlisted">>, <<"pending", "rejected">>,
                   <<"shortlisted", "interview_scheduled">>}
ClosedSched == [show |-> FALSE, selected |-> NoApp, loading |-> FALSE,
                insertFailed |-> FALSE]
ClosedForm == [show |-> FALSE, job |-> "", loading |-> FALSE, error |-> "",
               errorCode |-> "", submitted |-> "", notified |-> FALSE]
IdleSubmit == [pc |-> "idle", job |-> "", student |-> ""]

Ids(rows) == 1..Len(rows)

\* Handlers in flight that may still insert a notification.
PendingNotifications ==
  Cardinality({a \in AdminSessions : adminCall[a].pc # "idle"})
  + Cardinality({s \in DOMAIN studentCall : studentCall[s].pc # "idle"})

RoomForNotification ==
  BagCardinality(notifications) + PendingNotifications < MaxNotifications
RoomForInterview == Len(interviews) < MaxInterviews

\* ---------------------------------------------------------- the database
\* Faulty variant: the table without its unique constraint.
NoUniqueConstraint(rows, job, student) == FALSE

\* UNIQUE(job_id, student_id) of table applications.
UniqueViolation(rows, job, student) ==
  \E i \in Ids(rows) : rows[i].job_id = job /\ rows[i].student_id = student

\* INSERT INTO applications: status takes its DEFAULT.
InsertApplicationRow(rows, job, student) ==
  Append(rows, [job_id |-> job, student_id |-> student, status |-> DefaultStatus])

\* Faulty variant: an update that compares the current status first.
UpdateStatusRowIfEdge(rows, id, status) ==
  IF <<rows[id].status, status>> \in LifecycleEdges
    THEN [rows EXCEPT ![id].status = status] ELSE rows

\* UPDATE applications SET status = ... WHERE id = ...: no condition on the
\* current status.
UpdateStatusRow(rows, id, status) ==
  [rows EXCEPT ![id].status = status]

\* INSERT INTO notifications: read takes its DEFAULT false.
InsertNotificationRow(rows, user, title, message, type) ==
  rows (+) SetToBag({[user_id |-> user, title |-> title, message |-> message,
                      type |-> type, read |-> FALSE]})

InsertInterviewRow(rows, appId) ==
  Append(rows, [application_id |-> appId, status |-> DefaultInterviewStatus])

\* ------------------------------------------------------------------- Init
\* The state after the dashboards are constructed, before their first fetch
\* returns: empty tables, empty loaded lists, closed forms.  The student
\* sessions of a behaviour and the profile of each are fixed at the start.
InitWith(sessions) ==
  /\ applications = <<>>
  /\ interviews = <<>>
  /\ notifications = EmptyBag
  /\ adminApps = [a \in AdminSessions |-> <<>>]
  /\ adminCall = [a \in AdminSessions |-> IdleCall]
  /\ schedForm = [a \in AdminSessions |-> ClosedSched]
  /\ sessionProfile \in [sessions -> Students]
  /\ studentApps = [s \in sessions |-> {}]
  /\ studentForm = [s \in sessions |-> ClosedForm]
  /\ studentCall = [s \in sessions |-> IdleSubmit]

\* The components a specification leaves alone.
AccessIdle ==
  /\ passcode = <<>>
  /\ passcodeInputs = <<>>
  /\ verifiedInterviews = {}
  /\ opened = {}
  /\ everMatched = {}
  /\ everMatchedText = {}
ClockIdle ==
  /\ ivStatus = ""
  /\ ivDate = 0
  /\ clockNow = 0
  /\ renderedAt = 0
  /\ classification = ""

AuthIdle ==
  /\ version = ""
  /\ identity = <<>>
  /\ authSession = FALSE
  /\ profiles = <<>>
  /\ authState = <<>>
  /\ mounted = FALSE
  /\ initRun = <<>>
  /\ events = <<>>
  /\ handlers = <<>>
  /\ authOp = <<>>
  /\ authResult = <<>>
  /\ opsStarted = 0
  /\ lateUpdates = {}
  /\ owed = {}

CenterIdle ==
  /\ ncRows = <<>>
  /\ ncLoaded = <<>>
  /\ ncFilter = <<>>
  /\ ncLast = <<>>
PanelIdle == lastJoin = <<>>
ViewIdle == CenterIdle /\ PanelIdle

\* Two admin sessions and one student session.
Init == InitWith({"t1"}) /\ AccessIdle /\ ClockIdle /\ AuthIdle /\ ViewIdle

\* Two student sessions (of one student or of two), no admin acting.
InitSubmit == InitWith(StudentSessions) /\ AccessIdle /\ ClockIdle /\ AuthIdle /\ ViewIdle

\* ------------------------------------------------- StudentDashboard (student)
\* The job ids of the rows StudentDashboard.fetchApplications loads
\* (.eq('student_id', profile.id)), as JobListing keeps them.
appliedJobIds(rows, student) ==
  {rows[i].job_id : i \in {j \in Ids(rows) : rows[j].student_id = student}}

\* StudentDashboard.fetchApplications: the list is replaced on success and
\* kept on error.
StudentFetched(s, ok) ==
  IF ok THEN appliedJobIds(applications, sessionProfile[s]) ELSE studentApps[s]

\* The page is loaded again: component state starts anew and the list is fetched.
StudentReload(s, ok) ==
  /\ studentCall[s].pc = "idle"
  /\ studentApps' = [studentApps EXCEPT
        ![s] = IF ok THEN appliedJobIds(applications, sessionProfile[s]) ELSE {}]
  /\ studentForm' = [studentForm EXCEPT ![s] = ClosedForm]
  /\ UNCHANGED otherVars
  /\ UNCHANGED <<applications, interviews, notifications, adminApps, adminCall,
                 schedForm, sessionProfile, studentCall>>

\* JobListing offers "Apply Now" only for a job that is not in the loaded
\* applications; StudentDashboard.handleApplyToJob mounts the form.
handleApplyToJob(s, job) ==
  /\ ~studentForm[s].show
  /\ studentCall[s].pc = "idle"
  /\ job \notin studentApps[s]
  /\ studentForm' = [studentForm EXCEPT ![s] = [ClosedForm EXCEPT !.show = TRUE, !.job = job]]
  /\ UNCHANGED otherVars
  /\ UNCHANGED <<applications, interviews, notifications, adminApps, adminCall,
                 schedForm, sessionProfile, studentApps, studentCall>>

\* ApplicationForm onCancel (between submissions).
onCancel(s) ==
  /\ studentForm[s].show
  /\ studentCall[s].pc = "idle"
  /\ studentForm' = [studentForm EXCEPT ![s] = ClosedForm]
  /\ UNCHANGED otherVars
  /\ UNCHANGED <<applications, interviews, notifications, adminApps, adminCall,
                 schedForm, sessionProfile, studentApps, studentCall>>

\* The error the applications insert returns, code "" for none: the store
\* rejects a second row for the pair, and any request may fail.
ApplicationInsertError(rows, job, student, ok) ==
  IF UniqueViolation(rows, job, student) THEN UniqueViolationError
  ELSE IF ~ok THEN RequestFailedError
  ELSE [code |-> "", message |-> ""]

\* What handleSubmit's catch shows: setError(err.message).
ShownError(err) == err.message

\* Faulty variant: handleSubmit without "if (applicationError) throw applicationError":
\* the confirmation is written whatever the applications insert returned.
handleSubmitNoThrow(s, ok) ==
  LET job == studentForm[s].job
      student == sessionProfile[s]
      err == ApplicationInsertError(applications, job, student, ok)
  IN
  /\ studentForm[s].show
  /\ ~studentForm[s].loading
  /\ studentCall[s].pc = "idle"
  /\ RoomForNotification
  /\ applications' = IF err.code = ""
                       THEN InsertApplicationRow(applications, job, student)
                       ELSE applications
  /\ studentCall' = [studentCall EXCEPT ![s] =
        [pc |-> "insertNotification", job |-> job, student |-> student]]
  /\ studentForm' = [studentForm EXCEPT ![s].loading = TRUE, ![s].error = "",
                                        ![s].errorCode = ""]
  /\ UNCHANGED otherVars
  /\ UNCHANGED <<interviews, notifications, adminApps, adminCall, schedForm,
                 sessionProfile, studentApps>>

\* ApplicationForm.handleSubmit up to the return of the applications insert:
\* setLoading(true), setError(''), the insert; an error is thrown to the catch
\* block (setError) and the finally block (setLoading(false)).  The submit
\* button is disabled while loading.
handleSubmit(s, ok) ==
  LET job == studentForm[s].job
      student == sessionProfile[s]
      err == ApplicationInsertError(applications, job, student, ok)
  IN
  /\ studentForm[s].show
  /\ ~studentForm[s].loading
  /\ studentCall[s].pc = "idle"
  /\ RoomForNotification
  /\ IF err.code = ""
       THEN /\ applications' = InsertApplicationRow(applications, job, student)
            /\ studentCall' = [studentCall EXCEPT ![s] =
                  [pc |-> "insertNotification", job |-> job, student |-> student]]
            /\ studentForm' = [studentForm EXCEPT ![s].loading = TRUE, ![s].error = "",
                                                  ![s].errorCode = ""]
       ELSE /\ studentForm' = [studentForm EXCEPT ![s].error = ShownError(err),
                                                  ![s].errorCode = err.code,
                                                  ![s].loading = FALSE]
            /\ UNCHANGED <<applications, studentCall>>
  /\ UNCHANGED otherVars
  /\ UNCHANGED <<interviews, notifications, adminApps, adminCall, schedForm,
                 sessionProfile, studentApps>>

\* Faulty variant: the confirmation insert with "if (error) throw error": a
\* failed insert is shown as an error and onSubmit() is not called.
SubmitInsertNotificationThrows(s, ok, okFetch) ==
  LET c == studentCall[s] IN
  /\ c.pc = "insertNotification"
  /\ notifications' =
       IF ok THEN InsertNotificationRow(notifications, c.student, SubmittedTitle,
                                        SubmittedMessage, "success")
             ELSE notifications
  /\ studentForm' = [studentForm EXCEPT ![s] =
        IF ok THEN [ClosedForm EXCEPT !.submitted = c.job, !.notified = TRUE]
        ELSE [studentForm[s] EXCEPT !.loading = FALSE,
                                    !.error = RequestFailedError.message,
                                    !.errorCode = RequestFailedError.code]]
  /\ studentApps' = [studentApps EXCEPT ![s] = IF ok THEN StudentFetched(s, okFetch)
                                                ELSE studentApps[s]]
  /\ studentCall' = [studentCall EXCEPT ![s] = IdleSubmit]
  /\ UNCHANGED otherVars
  /\ UNCHANGED <<applications, interviews, adminApps, adminCall, schedForm,
                 sessionProfile>>

\* The confirmation insert returning (its result is not looked at), then
\* onSubmit() = StudentDashboard.handleApplicationSubmitted (the form is
\* closed, fetchApplications runs) and the finally block.
SubmitInsertNotification(s, ok, okFetch) ==
  LET c == studentCall[s] IN
  /\ c.pc = "insertNotification"
  /\ notifications' =
       IF ok THEN InsertNotificationRow(notifications, c.student, SubmittedTitle,
                                        SubmittedMessage, "success")
             ELSE notifications
  /\ studentForm' = [studentForm EXCEPT ![s] = [ClosedForm EXCEPT !.submitted = c.job, !.notified = ok]]
  /\ studentApps' = [studentApps EXCEPT ![s] = StudentFetched(s, okFetch)]
  /\ studentCall' = [studentCall EXCEPT ![s] = IdleSubmit]
  /\ UNCHANGED otherVars
  /\ UNCHANGED <<applications, interviews, adminApps, adminCall, schedForm,
                 sessionProfile>>

StudentNext ==
  \E s \in DOMAIN studentCall :
    \/ \E ok \in BOOLEAN : StudentReload(s, ok)
    \/ \E job \in Jobs : handleApplyToJob(s, job)
    \/ onCancel(s)
    \/ \E ok \in BOOLEAN : handleSubmit(s, ok)
    \/ \E ok, okFetch \in BOOLEAN : SubmitInsertNotification(s, ok, okFetch)

\* ----------------------------------------------------- AdminDashboard (admin)
\* AdminDashboard.fetchApplications: the list is replaced on success and kept
\* on error.
AdminFetched(a, ok) == IF ok THEN applications ELSE adminApps[a]

\* The page is loaded again: component state starts anew and the list is fetched.
AdminReload(a, ok) ==
  /\ adminCall[a].pc = "idle"
  /\ adminApps' = [adminApps EXCEPT ![a] = IF ok THEN applications ELSE <<>>]
  /\ schedForm' = [schedForm EXCEPT ![a] = ClosedSched]
  /\ UNCHANGED otherVars
  /\ UNCHANGED <<applications, interviews, notifications, adminCall, sessionProfile,
                 studentApps, studentForm, studentCall>>

\* The transition buttons JobApplications renders for a loaded row: Shortlist
\* and Reject for pending, Schedule Interview for shortlisted.
ButtonShown(loadedStatus, status) ==
  \/ loadedStatus = "pending" /\ status \in {"shortlisted", "rejected"}
  \/ loadedStatus = "shortlisted" /\ status = "interview_scheduled"

\* The notification updateApplicationStatus writes for a status.
notificationTitle(status) ==
  IF status = "shortlisted" THEN "Application Shortlisted!"
  ELSE IF status = "rejected" THEN "Application Update"
  ELSE "Interview Scheduled!"
notificationMessage(status) ==
  IF status = "shortlisted"
    THEN "Congratulations! You have been shortlisted for the position."
  ELSE IF status = "rejected"
    THEN "Thank you for your application. We have decided to move forward with other candidates."
  ELSE "Your interview has been scheduled. Please check your dashboard for details."
notificationType(status) == IF status = "rejected" THEN "info" ELSE "success"

\* JobApplications.updateApplicationStatus from the click to the return of
\* the update: an error is thrown to the catch block, which only logs.  The
\* button belongs to the applications tab, where InterviewScheduler is not
\* mounted.
updateApplicationStatus(a, id, status, ok) ==
  /\ adminCall[a].pc = "idle"
  /\ id \in Ids(adminApps[a])
  /\ ButtonShown(adminApps[a][id].status, status)
  /\ RoomForNotification
  /\ schedForm' = [schedForm EXCEPT ![a] = ClosedSched]
  /\ IF ok
       THEN /\ applications' = UpdateStatusRow(applications, id, status)
            /\ adminCall' = [adminCall EXCEPT ![a] =
                  [pc |-> "notify", status |-> status,
                   edge |-> <<applications[id].status, status>> \in LifecycleEdges,
                   app |-> [id |-> id, student_id |-> adminApps[a][id].student_id]]]
       ELSE UNCHANGED <<applications, adminCall>>
  /\ UNCHANGED otherVars
  /\ UNCHANGED <<interviews, notifications, adminApps, sessionProfile, studentApps,
                 studentForm, studentCall>>

\* The notification insert of updateApplicationStatus returning (its result
\* is not looked at), then onRefresh().
UpdateNotify(a, ok, okFetch) ==
  LET c == adminCall[a] IN
  /\ c.pc = "notify"
  /\ notifications' =
       IF ok THEN InsertNotificationRow(notifications, c.app.student_id,
                     notificationTitle(c.status), notificationMessage(c.status),
                     notificationType(c.status))
             ELSE notifications
  /\ adminApps' = [adminApps EXCEPT ![a] = AdminFetched(a, okFetch)]
  /\ adminCall' = [adminCall EXCEPT ![a] = IdleCall]
  /\ UNCHANGED otherVars
  /\ UNCHANGED <<applications, interviews, schedForm, sessionProfile, studentApps,
                 studentForm, studentCall>>

\* --------------------------------------------------------- InterviewScheduler
schedulableApplications(rows) ==
  {i \in Ids(rows) : rows[i].status \in {"shortlisted", "interview_scheduled"}}

\* The "Schedule Interview" button of the interviews tab.
openScheduleForm(a) ==
  /\ adminCall[a].pc = "idle"
  /\ ~schedForm[a].show
  /\ schedulableApplications(adminApps[a]) # {}
  /\ schedForm' = [schedForm EXCEPT ![a].show = TRUE]
  /\ UNCHANGED otherVars
  /\ UNCHANGED <<applications, interviews, notifications, adminApps, adminCall,
                 sessionProfile, studentApps, studentForm, studentCall>>

\* The candidate select of the schedule form.
selectCandidate(a, id) ==
  /\ adminCall[a].pc = "idle"
  /\ schedForm[a].show
  /\ id \in schedulableApplications(adminApps[a])
  /\ schedForm[a].selected.id # id
  /\ schedForm' = [schedForm EXCEPT
        ![a].selected = [id |-> id, student_id |-> adminApps[a][id].student_id]]
  /\ UNCHANGED otherVars
  /\ UNCHANGED <<applications, interviews, notifications, adminApps, adminCall,
                 sessionProfile, studentApps, studentForm, studentCall>>

\* Faulty variant: handleScheduleInterview without "if (interviewError) throw
\* interviewError": the status update follows a failed insert too.
handleScheduleInterviewNoThrow(a, ok) ==
  /\ adminCall[a].pc = "idle"
  /\ schedForm[a].show
  /\ ~schedForm[a].loading
  /\ schedForm[a].selected # NoApp
  /\ RoomForNotification
  /\ RoomForInterview
  /\ interviews' = IF ok THEN InsertInterviewRow(interviews, schedForm[a].selected.id)
                         ELSE interviews
  /\ adminCall' = [adminCall EXCEPT ![a] =
        [pc |-> "schedUpdate", status |-> "interview_scheduled", edge |-> FALSE,
         app |-> schedForm[a].selected]]
  /\ schedForm' = [schedForm EXCEPT ![a].loading = TRUE, ![a].insertFailed = ~ok]
  /\ UNCHANGED otherVars
  /\ UNCHANGED <<applications, notifications, adminApps, sessionProfile, studentApps,
                 studentForm, studentCall>>

\* handleScheduleInterview from the submit to the return of the interviews
\* insert: setLoading(true), the insert; an error is thrown to the catch block
\* (log) and the finally block (setLoading(false)).
handleScheduleInterview(a, ok) ==
  /\ adminCall[a].pc = "idle"
  /\ schedForm[a].show
  /\ ~schedForm[a].loading
  /\ schedForm[a].selected # NoApp
  /\ RoomForNotification
  /\ RoomForInterview
  /\ IF ok
       THEN /\ interviews' = InsertInterviewRow(interviews, schedForm[a].selected.id)
            /\ adminCall' = [adminCall EXCEPT ![a] =
                  [pc |-> "schedUpdate", status |-> "interview_scheduled",
                   edge |-> FALSE,
                   app |-> schedForm[a].selected]]
            /\ schedForm' = [schedForm EXCEPT ![a].loading = TRUE,
                                              ![a].insertFailed = FALSE]
       ELSE /\ schedForm' = [schedForm EXCEPT ![a].loading = FALSE,
                                              ![a].insertFailed = TRUE]
            /\ UNCHANGED <<interviews, adminCall>>
  /\ UNCHANGED otherVars
  /\ UNCHANGED <<applications, notifications, adminApps, sessionProfile, studentApps,
                 studentForm, studentCall>>

\* Faulty variant: handleScheduleInterview without "if (updateError) throw
\* updateError": the notification follows a failed update too.
ScheduleUpdateNoThrow(a, ok) ==
  LET c == adminCall[a] IN
  /\ c.pc = "schedUpdate"
  /\ applications' = IF ok THEN UpdateStatusRow(applications, c.app.id, "interview_scheduled")
                           ELSE applications
  /\ adminCall' = [adminCall EXCEPT ![a].pc = "schedNotify",
                                    ![a].edge =
            <<applications[c.app.id].status, c.status>> \in LifecycleEdges]
  /\ UNCHANGED schedForm
  /\ UNCHANGED otherVars
  /\ UNCHANGED <<interviews, notifications, adminApps, sessionProfile, studentApps,
                 studentForm, studentCall>>

\* The status update of handleScheduleInterview returning.
ScheduleUpdate(a, ok) ==
  LET c == adminCall[a] IN
  /\ c.pc = "schedUpdate"
  /\ IF ok
       THEN /\ applications' = UpdateStatusRow(applications, c.app.id, "interview_scheduled")
            /\ adminCall' = [adminCall EXCEPT ![a].pc = "schedNotify",
                                              ![a].edge =
                      <<applications[c.app.id].status, c.status>> \in LifecycleEdges]
            /\ UNCHANGED schedForm
       ELSE /\ schedForm' = [schedForm EXCEPT ![a].loading = FALSE]
            /\ adminCall' = [adminCall EXCEPT ![a] = IdleCall]
            /\ UNCHANGED applications
  /\ UNCHANGED otherVars
  /\ UNCHANGED <<interviews, notifications, adminApps, sessionProfile, studentApps,
                 studentForm, studentCall>>

\* The notification insert of handleScheduleInterview returning (its result is
\* not looked at), then the form reset, fetchInterviews(), onRefresh() and the
\* finally block.
ScheduleNotify(a, ok, okFetch) ==
  LET c == adminCall[a] IN
  /\ c.pc = "schedNotify"
  /\ notifications' =
       IF ok THEN InsertNotificationRow(notifications, c.app.student_id,
                     "Interview Scheduled!", ScheduledMessage, "success")
             ELSE notifications
  /\ schedForm' = [schedForm EXCEPT ![a] = ClosedSched]
  /\ adminApps' = [adminApps EXCEPT ![a] = AdminFetched(a, okFetch)]
  /\ adminCall' = [adminCall EXCEPT ![a] = IdleCall]
  /\ UNCHANGED otherVars
  /\ UNCHANGED <<applications, interviews, sessionProfile, studentApps, studentForm,
                 studentCall>>

AdminNext ==
  \E a \in AdminSessions :
    \/ \E ok \in BOOLEAN : AdminReload(a, ok)
    \/ \E id \in 1..Len(applications), status \in StatusValues, ok \in BOOLEAN :
         updateApplicationStatus(a, id, status, ok)
    \/ \E ok, okFetch \in BOOLEAN : UpdateNotify(a, ok, okFetch)
    \/ openScheduleForm(a)
    \/ \E id \in 1..Len(applications) : selectCandidate(a, id)
    \/ \E ok \in BOOLEAN : handleScheduleInterview(a, ok)
    \/ \E ok \in BOOLEAN : ScheduleUpdate(a, ok)
    \/ \E ok, okFetch \in BOOLEAN : ScheduleNotify(a, ok, okFetch)

Next == StudentNext \/ AdminNext

Spec == Init /\ [][Next]_vars

SpecSubmit == InitSubmit /\ [][StudentNext]_vars

\* ------------------------------------------------------------ InterviewAccess
\* String.prototype.trim and toUpperCase on the texts of the model.
RECURSIVE trimStart(_)
trimStart(str) ==
  IF str # <<>> /\ Head(str) = " " THEN trimStart(Tail(str)) ELSE str
RECURSIVE trimEnd(_)
trimEnd(str) ==
  IF str # <<>> /\ str[Len(str)] = " " THEN trimEnd(SubSeq(str, 1, Len(str) - 1)) ELSE str
trim(str) == trimEnd(trimStart(str))
toUpperCase(str) == [k \in 1..Len(str) |-> IF str[k] = "a" THEN "A" ELSE str[k]]

\* The texts a field can hold.
Texts == UNION {[1..n -> Chars] : n \in 0..MaxPasscodeLen}

\* passcodeInputs[id] is undefined until the field is first changed.
Undefined == [set |-> FALSE, value |-> <<>>]
Typed(value) == [set |-> TRUE, value |-> value]

\* What the input element shows: passcodeInputs[interview.id] || ''.
inputPasscode(id) == IF passcodeInputs[id].set THEN passcodeInputs[id].value ELSE <<>>

\* handlePasscodeInput: the field fires onChange when its text changes.
handlePasscodeInput(id, value) ==
  /\ value # inputPasscode(id)
  /\ passcodeInputs' = [passcodeInputs EXCEPT ![id] = Typed(value)]
  /\ everMatched' = IF toUpperCase(trim(value)) = toUpperCase(trim(passcode[id]))
                      THEN everMatched \cup {id} ELSE everMatched
  /\ everMatchedText' =
       IF value # <<>> /\ toUpperCase(trim(value)) = toUpperCase(trim(passcode[id]))
         THEN everMatchedText \cup {id} ELSE everMatchedText
  /\ UNCHANGED <<passcode, verifiedInterviews, opened>>
  /\ UNCHANGED <<lifeVars, clockVars, authVars, viewVars>>

\* verifyPasscode's comparison: passcodeInputs[id]?.trim().toUpperCase() is
\* undefined for a field never changed, and undefined equals no text.
verifyPasscode(id) ==
  /\ passcodeInputs[id].set
  /\ toUpperCase(trim(passcodeInputs[id].value)) = toUpperCase(trim(passcode[id]))

\* Faulty variant: a verified set that is not keyed by interview.
verifiedAfterUnlocksAll(id) ==
  IF verifyPasscode(id) THEN InterviewIds ELSE verifiedInterviews

\* verifiedInterviews after verifyPasscode(interview).
verifiedAfter(id) ==
  IF verifyPasscode(id) THEN verifiedInterviews \cup {id} ELSE verifiedInterviews

\* The Join button is disabled unless the interview is verified or the shown
\* text matches.
joinDisabled(id) ==
  /\ id \notin verifiedInterviews
  /\ toUpperCase(trim(inputPasscode(id))) # toUpperCase(trim(passcode[id]))

\* joinMeeting from a click on the Join button.
joinMeeting(id) ==
  /\ ~joinDisabled(id)
  /\ verifiedInterviews' = verifiedAfter(id)
  /\ opened' = IF verifyPasscode(id) \/ id \in verifiedInterviews
                 THEN opened \cup {id} ELSE opened
  /\ UNCHANGED <<passcode, passcodeInputs, everMatched, everMatchedText>>
  /\ UNCHANGED <<lifeVars, clockVars, authVars, viewVars>>

\* The component is mounted again (another tab was visited, or a reload):
\* its state starts anew.
remountInterviewAccess ==
  /\ (verifiedInterviews # {} \/ \E id \in InterviewIds : passcodeInputs[id].set)
  /\ passcodeInputs' = [id \in InterviewIds |-> Undefined]
  /\ verifiedInterviews' = {}
  /\ opened' = {}
  /\ everMatched' = {}
  /\ everMatchedText' = {}
  /\ UNCHANGED passcode
  /\ UNCHANGED <<lifeVars, clockVars, authVars, viewVars>>

InitAccess ==
  /\ InitWith({}) /\ ClockIdle /\ AuthIdle /\ ViewIdle
  /\ passcode \in [InterviewIds -> StoredPasscodes]
  /\ passcodeInputs = [id \in InterviewIds |-> Undefined]
  /\ verifiedInterviews = {}
  /\ opened = {}
  /\ everMatched = {}
  /\ everMatchedText = {}

AccessNext ==
  \/ \E id \in InterviewIds, value \in Texts : handlePasscodeInput(id, value)
  \/ \E id \in InterviewIds : joinMeeting(id)
  \/ remountInterviewAccess

SpecAccess == InitAccess /\ [][AccessNext]_vars

\* ----------------------------------------------------------- getInterviewStatus
\* date-fns isAfter / isBefore compare the instants strictly.
isAfter(date, dateToCompare) == date > dateToCompare
isBefore(date, dateToCompare) == date < dateToCompare
addMinutes(date, amount) == date + amount

\* Faulty variant: the clock is looked at before the stored status.
getInterviewStatusClockFirst(status, scheduled_date, now) ==
  IF isAfter(now, addMinutes(scheduled_date, InterviewLength)) THEN "past"
  ELSE IF status = "completed" THEN "completed"
  ELSE IF status = "cancelled" THEN "cancelled"
  ELSE IF isAfter(now, addMinutes(scheduled_date, -LiveLead)) THEN "live"
  ELSE IF isAfter(now, addMinutes(scheduled_date, -UpcomingLead)) THEN "upcoming"
  ELSE "scheduled"

getInterviewStatus(status, scheduled_date, now) ==
  LET interviewTime == scheduled_date
      interviewEnd == addMinutes(interviewTime, InterviewLength)
  IN
  IF status = "completed" THEN "completed"
  ELSE IF status = "cancelled" THEN "cancelled"
  ELSE IF isAfter(now, interviewEnd) THEN "past"
  ELSE IF isAfter(now, addMinutes(interviewTime, -LiveLead)) /\ isBefore(now, interviewEnd)
    THEN "live"
  ELSE IF isAfter(now, addMinutes(interviewTime, -UpcomingLead)) THEN "upcoming"
  ELSE "scheduled"

\* Time passes; what is shown stays as rendered.
Tick ==
  /\ clockNow < ivDate + MaxTail
  /\ clockNow' = clockNow + 1
  /\ UNCHANGED <<ivStatus, ivDate, renderedAt, classification>>
  /\ UNCHANGED <<lifeVars, accessVars, authVars, viewVars>>

\* The list is rendered: getInterviewStatus(interview) with now = new Date().
Render ==
  /\ renderedAt # clockNow
  /\ renderedAt' = clockNow
  /\ classification' = getInterviewStatus(ivStatus, ivDate, clockNow)
  /\ UNCHANGED <<ivStatus, ivDate, clockNow>>
  /\ UNCHANGED <<lifeVars, accessVars, authVars, viewVars>>

InitClock ==
  /\ InitWith({}) /\ AccessIdle /\ AuthIdle /\ ViewIdle
  /\ ivStatus \in InterviewStatusValues
  /\ ivDate \in 0..MaxDate
  /\ clockNow = ivDate - MaxLead
  /\ renderedAt = clockNow
  /\ classification = getInterviewStatus(ivStatus, ivDate, clockNow)

ClockNext == Tick \/ Render

SpecClock == InitClock /\ [][ClockNext]_vars

\* ------------------------------------------- the card of one interview
\* InterviewAccess renders one card per interview; the card of PanelInterview
\* is followed while time passes.  Every setState renders the component
\* again, with now = new Date().
PanelInterview == "i1"

\* The "Meeting Access" block (passcode field, Join button) is rendered for
\* a classification that is not past, completed or cancelled.
PanelOffered(status) ==
  status # "past" /\ status # "completed" /\ status # "cancelled"

\* No call of joinMeeting since the component was mounted.
NoJoin == [called |-> FALSE, input |-> <<>>, wasVerified |-> FALSE, opened |-> FALSE]
Joined(input, wasVerified, open) ==
  [called |-> TRUE, input |-> input, wasVerified |-> wasVerified, opened |-> open]

\* Faulty variant: joinMeeting without verifiedInterviews.has(interview.id).
joinOpensOnMatchOnly(id) == verifyPasscode(id)

\* joinMeeting's condition for window.open.
joinOpens(id) == verifyPasscode(id) \/ id \in verifiedInterviews

\* An instant of each stretch of the day of the interview: long before,
\* inside the half hour before, inside the quarter before, after the end.
PanelInstants ==
  {ivDate - MaxLead, ivDate - UpcomingLead + 1, ivDate - LiveLead + 1, ivDate + MaxTail}

\* Time passes; what is shown stays as rendered.
PanelTick(t) ==
  /\ t \in PanelInstants
  /\ t > clockNow
  /\ clockNow' = t
  /\ UNCHANGED <<ivStatus, ivDate, renderedAt, classification>>
  /\ UNCHANGED <<lifeVars, accessVars, authVars, centerVars, panelVars>>

\* The parent renders the component again (a fetch of the dashboard returned).
PanelRender ==
  /\ renderedAt # clockNow
  /\ renderedAt' = clockNow
  /\ classification' = getInterviewStatus(ivStatus, ivDate, clockNow)
  /\ UNCHANGED <<ivStatus, ivDate, clockNow>>
  /\ UNCHANGED <<lifeVars, accessVars, authVars, centerVars, panelVars>>

\* The passcode field of the card changes: handlePasscodeInput, and the
\* render that setPasscodeInputs causes.
PanelInput(id, value) ==
  /\ PanelOffered(classification)
  /\ value # inputPasscode(id)
  /\ passcodeInputs' = [passcodeInputs EXCEPT ![id] = Typed(value)]
  /\ everMatched' = IF toUpperCase(trim(value)) = toUpperCase(trim(passcode[id]))
                      THEN everMatched \cup {id} ELSE everMatched
  /\ everMatchedText' =
       IF value # <<>> /\ toUpperCase(trim(value)) = toUpperCase(trim(passcode[id]))
         THEN everMatchedText \cup {id} ELSE everMatchedText
  /\ renderedAt' = clockNow
  /\ classification' = getInterviewStatus(ivStatus, ivDate, clockNow)
  /\ UNCHANGED <<passcode, verifiedInterviews, opened, ivStatus, ivDate, clockNow>>
  /\ UNCHANGED <<lifeVars, authVars, centerVars, panelVars>>

\* A click on the Join button of the card: joinMeeting.  setVerifiedInterviews
\* runs when the text matches, and renders the component again.
PanelJoin(id) ==
  /\ PanelOffered(classification)
  /\ ~joinDisabled(id)
  /\ verifiedInterviews' = verifiedAfter(id)
  /\ opened' = IF joinOpens(id) THEN opened \cup {id} ELSE opened
  /\ lastJoin' = Joined(inputPasscode(id), id \in verifiedInterviews, joinOpens(id))
  /\ renderedAt' = IF verifyPasscode(id) THEN clockNow ELSE renderedAt
  /\ classification' = IF verifyPasscode(id)
                         THEN getInterviewStatus(ivStatus, ivDate, clockNow)
                         ELSE classification
  /\ UNCHANGED <<passcode, passcodeInputs, everMatched, everMatchedText,
                 ivStatus, ivDate, clockNow>>
  /\ UNCHANGED <<lifeVars, authVars, centerVars>>

\* The component is mounted again (another tab was visited, or a reload):
\* its state starts anew.
PanelRemount ==
  /\ (verifiedInterviews # {} \/ \E id \in InterviewIds : passcodeInputs[id].set)
  /\ passcodeInputs' = [id \in InterviewIds |-> Undefined]
  /\ verifiedInterviews' = {}
  /\ opened' = {}
  /\ everMatched' = {}
  /\ everMatchedText' = {}
  /\ lastJoin' = NoJoin
  /\ renderedAt' = clockNow
  /\ classification' = getInterviewStatus(ivStatus, ivDate, clockNow)
  /\ UNCHANGED <<passcode, ivStatus, ivDate, clockNow>>
  /\ UNCHANGED <<lifeVars, authVars, centerVars>>

InitPanel ==
  /\ InitWith({}) /\ AuthIdle /\ CenterIdle
  /\ \E p \in StoredPasscodes : passcode = [id \in InterviewIds |-> p]
  /\ passcodeInputs = [id \in InterviewIds |-> Undefined]
  /\ verifiedInterviews = {}
  /\ opened = {}
  /\ everMatched = {}
  /\ everMatchedText = {}
  /\ lastJoin = NoJoin
  /\ ivStatus \in InterviewStatusValues
  /\ ivDate \in 0..MaxDate
  /\ clockNow = ivDate - MaxLead
  /\ renderedAt = clockNow
  /\ classification = getInterviewStatus(ivStatus, ivDate, clockNow)

PanelNext ==
  \/ \E t \in PanelInstants : PanelTick(t)
  \/ PanelRender
  \/ \E value \in Texts : PanelInput(PanelInterview, value)
  \/ PanelJoin(PanelInterview)
  \/ PanelRemount

SpecPanel == InitPanel /\ [][PanelNext]_vars

\* ------------------------------------------------------------------- useAuth
\* One identity of the provider, one instance of the hook.  A remote call
\* succeeds, returns an error, or throws; the hook has a catch for each.
Versions == {"current", "earlier"}
Outcomes == {"ok", "error", "throw"}
UserId == "u1"
Null == "null"
FullNames == {"Ann"}
UserRoles == {"student", "admin"}
HandlerSlots == {"h1", "h2"}

\* user_metadata of an identity: what signUp stored, or an identity made
\* elsewhere whose metadata lacks full_name or role.
SignupMetadata == [full_name : FullNames, role : UserRoles]
OtherMetadata == {[full_name |-> "", role |-> "student"], [full_name |-> "Ann", role |-> ""]}
NoIdentity == [full_name |-> "", role |-> ""]

NoProfile == [id |-> "", full_name |-> "", role |-> ""]
ProfileRow(fullName, role) == [id |-> UserId, full_name |-> fullName, role |-> role]

\* Messages the hook publishes.
ProfileNotFound == "Profile not found"
FailedToInitialize == "Failed to initialize authentication"
ContactSupport == "Profile not found. Please contact support."
AuthenticationErrorOccurred == "Authentication error occurred"
UserCreationFailed == "User creation failed"
ProviderErrorMessage == "provider error"      \* error.message of a returned error
ThrownErrorMessage == "Failed to fetch"       \* error.message of a thrown error

InitialAuthState == [user |-> Null, profile |-> NoProfile, loading |-> TRUE, error |-> Null]
\* Faulty variant: the state for no session keeps loading set.
StillLoadingState == [user |-> Null, profile |-> NoProfile, loading |-> TRUE, error |-> Null]
ClearedAuthState == [user |-> Null, profile |-> NoProfile, loading |-> FALSE, error |-> Null]

\* ---- table profiles (id is the primary key)
HasProfile(rows, id) == \E i \in 1..Len(rows) : rows[i].id = id
\* .select('*').eq('id', id).maybeSingle(): the row, or null without an error.
SelectProfile(rows, id) ==
  IF HasProfile(rows, id) THEN rows[CHOOSE i \in 1..Len(rows) : rows[i].id = id]
  ELSE NoProfile

\* Faulty variant: a plain insert, which the primary key rejects.
InsertProfileOnly(rows, row) ==
  IF HasProfile(rows, row.id)
    THEN [rows |-> rows, data |-> NoProfile, error |-> "23505"]
    ELSE [rows |-> Append(rows, row), data |-> row, error |-> Null]

\* .upsert(row, { onConflict: 'id' }).select().maybeSingle()
UpsertProfile(rows, row) ==
  IF HasProfile(rows, row.id)
    THEN [rows |-> [i \in 1..Len(rows) |-> IF rows[i].id = row.id THEN row ELSE rows[i]],
          data |-> row, error |-> Null]
    ELSE [rows |-> Append(rows, row), data |-> row, error |-> Null]

\* ---- setState
\* The state a successful signIn (signOut) is to end in.
Settled(k, state) ==
  /\ ~state.loading
  /\ IF k = "signIn"
       THEN state.user # Null /\ (state.profile # NoProfile \/ state.error # Null)
       ELSE state.user = Null /\ state.profile = NoProfile /\ state.error = Null

\* setState(...): React drops an update of an unmounted component; the call
\* made after teardown is recorded.
setState(new, who) ==
  /\ IF mounted THEN authState' = new /\ lateUpdates' = lateUpdates
     ELSE authState' = authState /\ lateUpdates' = lateUpdates \cup {who}
  /\ owed' = {k \in owed : ~Settled(k, authState')}

\* if (mounted) setState(...)
setStateIfMounted(new) ==
  /\ authState' = IF mounted THEN new ELSE authState
  /\ lateUpdates' = lateUpdates
  /\ owed' = {k \in owed : ~Settled(k, authState')}

\* ---- processes at rest
\* Besides its position a process keeps its local variables (newProfile,
\* createError; profileData, profileError) and a record of what happened to it:
\*   read       what the profile read of getInitialSession returned
\*   end        how the callback ended
\*   failed     a remote call of the profile step returned an error or threw
\*   upserted   the upsert of createUserProfile was applied
\*   authOk     the provider call of the operation succeeded
\*   readProfile  the operation called getUserProfile
InitStarts == [pc |-> "getSession", read |-> ""]
InitDone(read) == [pc |-> "done", read |-> read]
IdleHandler == [pc |-> "idle", end |-> "", failed |-> FALSE, upserted |-> FALSE,
                newProfile |-> NoProfile, createError |-> Null]
IdleOp == [kind |-> "", pc |-> "idle", fullName |-> "", role |-> "", authOk |-> FALSE,
           failed |-> FALSE, upserted |-> FALSE,
           profileData |-> NoProfile, profileError |-> Null, readProfile |-> FALSE]
NoResult == [op |-> "", data |-> Null, error |-> Null]

\* The hook just mounted: getInitialSession() is called and the callback is
\* subscribed.  The identity may exist already, with or without its profile row
\* and with or without a session.
InitAuth ==
  /\ InitWith({}) /\ AccessIdle /\ ClockIdle /\ ViewIdle
  /\ version \in Versions
  /\ identity \in {NoIdentity} \cup SignupMetadata \cup OtherMetadata
  /\ authSession \in (IF identity = NoIdentity THEN {FALSE} ELSE BOOLEAN)
  /\ profiles \in (IF identity \in SignupMetadata
                     THEN {<<>>, <<ProfileRow(identity.full_name, identity.role)>>}
                     ELSE {<<>>})
  /\ authState = InitialAuthState
  /\ mounted = TRUE
  /\ initRun = InitStarts
  /\ events = <<>>
  /\ handlers = [h \in HandlerSlots |-> IdleHandler]
  /\ authOp = IdleOp
  /\ authResult = NoResult
  /\ opsStarted = 0
  /\ lateUpdates = {}
  /\ owed = {}

\* What every action of the hook leaves alone.
AuthFrame == UNCHANGED <<lifeVars, accessVars, clockVars, viewVars, version>>

\* ---- getInitialSession
\* An update of getInitialSession that follows the profile read (and the one of
\* the branch without a session): gated by mounted in the current hook only.
initSetState(new) ==
  IF version = "current" THEN setStateIfMounted(new) ELSE setState(new, "init")

\* await supabase.auth.getSession() returns.
GetSessionReturns(o) ==
  /\ initRun.pc = "getSession"
  /\ IF o = "ok" /\ authSession /\ mounted
       THEN /\ initRun' = [initRun EXCEPT !.pc = "read"]
            /\ UNCHANGED <<authState, lateUpdates, owed>>
       ELSE /\ initRun' = InitDone("")
            /\ CASE o = "ok" -> initSetState(ClearedAuthState)
                 [] o = "error" ->
                      setStateIfMounted([authState EXCEPT !.error = ProviderErrorMessage,
                                                          !.loading = FALSE])
                 [] OTHER ->
                      setStateIfMounted([authState EXCEPT !.error = FailedToInitialize,
                                                          !.loading = FALSE])
  /\ UNCHANGED <<identity, authSession, profiles, mounted, events, handlers, authOp,
                 authResult, opsStarted>>
  /\ AuthFrame

\* await getUserProfile(session.user.id) returns in getInitialSession.
InitProfileRead(o) ==
  /\ initRun.pc = "read"
  /\ LET data == SelectProfile(profiles, UserId)
     IN CASE o = "ok" ->
               /\ initRun' = InitDone(IF data = NoProfile THEN "none" ELSE "row")
               /\ initSetState([user |-> UserId, profile |-> data,
                                loading |-> FALSE, error |-> Null])
          [] o = "error" ->
               /\ initRun' = InitDone("error")
               /\ initSetState([authState EXCEPT !.user = UserId, !.profile = NoProfile,
                                                 !.error = ProfileNotFound,
                                                 !.loading = FALSE])
          [] OTHER ->
               /\ initRun' = InitDone("threw")
               /\ setStateIfMounted([authState EXCEPT !.error = FailedToInitialize,
                                                      !.loading = FALSE])
  /\ UNCHANGED <<identity, authSession, profiles, mounted, events, handlers, authOp,
                 authResult, opsStarted>>
  /\ AuthFrame

\* ---- the onAuthStateChange callback
SignedInState(profile) ==
  [user |-> UserId, profile |-> profile, loading |-> FALSE, error |-> Null]
ContactSupportState ==
  [user |-> UserId, profile |-> NoProfile, loading |-> FALSE, error |-> ContactSupport]
HandlerCatchState ==
  [authState EXCEPT !.error = AuthenticationErrorOccurred, !.loading = FALSE]

\* userMetadata?.full_name && userMetadata?.role
MetadataComplete == identity.full_name # "" /\ identity.role # ""

\* The callback ends, publishing `new`.
HandlerEnds(h, end, new, newProfile, createError) ==
  /\ handlers' = [handlers EXCEPT ![h].pc = "idle", ![h].end = end,
                                  ![h].newProfile = newProfile,
                                  ![h].createError = createError]
  /\ setState(new, "handler")

\* The callback ends in its catch block.
HandlerCatches(h) ==
  /\ handlers' = [handlers EXCEPT ![h].pc = "idle", ![h].end = "threw",
                                  ![h].failed = TRUE]
  /\ setState(HandlerCatchState, "handler")

\* The provider calls the callback with the session of the event.
DeliverEvent ==
  /\ events # <<>>
  /\ \/ /\ ~mounted                      \* if (!mounted) return
        /\ UNCHANGED <<handlers, authState, lateUpdates, owed>>
     \/ /\ mounted /\ ~Head(events)      \* no session: the cleared state
        /\ setState(ClearedAuthState, "handler")
        /\ UNCHANGED handlers
     \/ /\ mounted /\ Head(events)
        /\ LET free == {h \in HandlerSlots : handlers[h].pc = "idle"}
           IN /\ free # {}
              /\ handlers' = [handlers EXCEPT ![CHOOSE h \in free : TRUE] =
                                               [IdleHandler EXCEPT !.pc = "read"]]
        /\ UNCHANGED <<authState, lateUpdates, owed>>
  /\ events' = Tail(events)
  /\ UNCHANGED <<identity, authSession, profiles, mounted, initRun, authOp, authResult,
                 opsStarted>>
  /\ AuthFrame

\* await getUserProfile(session.user.id) returns in the callback.
HandlerProfileRead(h, o) ==
  /\ handlers[h].pc = "read"
  /\ LET found == IF o = "ok" THEN SelectProfile(profiles, UserId) ELSE NoProfile
     IN CASE o = "throw" -> HandlerCatches(h)
          [] found # NoProfile -> HandlerEnds(h, "found", SignedInState(found), NoProfile, Null)
          [] MetadataComplete ->
               /\ handlers' = [handlers EXCEPT ![h].pc = "select", ![h].failed = o # "ok"]
               /\ UNCHANGED <<authState, lateUpdates, owed>>
          [] OTHER -> HandlerEnds(h, "nometa", ContactSupportState, NoProfile, Null)
  /\ UNCHANGED <<identity, authSession, profiles, mounted, initRun, events, authOp,
                 authResult, opsStarted>>
  /\ AuthFrame

\* createUserProfile in the callback: its select returns.
HandlerCreateSelect(h, o) ==
  /\ handlers[h].pc = "select"
  /\ LET existing == SelectProfile(profiles, UserId)
     IN CASE o = "throw" -> HandlerCatches(h)
          [] o = "error" ->
               /\ handlers' = [handlers EXCEPT ![h].pc = "idle", ![h].end = "createError",
                                               ![h].failed = TRUE,
                                               ![h].createError = "other"]
               /\ setState(ContactSupportState, "handler")
          [] existing # NoProfile ->
               HandlerEnds(h, "created", SignedInState(existing), existing, Null)
          [] OTHER ->
               /\ handlers' = [handlers EXCEPT ![h].pc = "upsert"]
               /\ UNCHANGED <<authState, lateUpdates, owed>>
  /\ UNCHANGED <<identity, authSession, profiles, mounted, initRun, events, authOp,
                 authResult, opsStarted>>
  /\ AuthFrame

\* createUserProfile in the callback: its upsert returns.
HandlerCreateUpsert(h, o) ==
  /\ handlers[h].pc = "upsert"
  /\ LET r == UpsertProfile(profiles, ProfileRow(identity.full_name, identity.role))
     IN CASE o = "throw" -> HandlerCatches(h) /\ UNCHANGED profiles
          [] o = "error" ->
               /\ handlers' = [handlers EXCEPT ![h].pc = "idle", ![h].end = "createError",
                                               ![h].failed = TRUE,
                                               ![h].createError = "other"]
               /\ setState(ContactSupportState, "handler")
               /\ UNCHANGED profiles
          [] OTHER ->
               /\ profiles' = r.rows
               /\ handlers' = [handlers EXCEPT
                    ![h].pc = "idle", ![h].upserted = TRUE,
                    ![h].end = IF r.error = Null /\ r.data # NoProfile
                                 THEN "created" ELSE "createError",
                    ![h].newProfile = r.data, ![h].createError = r.error]
               /\ setState(IF r.error = Null /\ r.data # NoProfile
                             THEN SignedInState(r.data) ELSE ContactSupportState,
                           "handler")
  /\ UNCHANGED <<identity, authSession, mounted, initRun, events, authOp, authResult,
                 opsStarted>>
  /\ AuthFrame

\* ---- signUp, signIn, signOut, clearError
\* setState(prev => ({ ...prev, loading: true, error: null })) and the call.
StartOp(kind, fullName, role) ==
  /\ mounted
  /\ authOp.pc = "idle"
  /\ opsStarted < MaxAuthOps
  /\ opsStarted' = opsStarted + 1
  /\ authOp' = [IdleOp EXCEPT !.kind = kind, !.pc = "auth", !.fullName = fullName,
                               !.role = role]
  /\ authResult' = NoResult
  /\ setState([authState EXCEPT !.loading = TRUE, !.error = Null], "op")
  /\ UNCHANGED <<identity, authSession, profiles, mounted, initRun, events, handlers>>
  /\ AuthFrame

StartSignUp(fullName, role) == StartOp("signUp", fullName, role)
StartSignIn == StartOp("signIn", "", "")
StartSignOut == StartOp("signOut", "", "")

\* The operation returns { data: null, error } after
\* setState(prev => ({ ...prev, loading: false, error: message })).
OpFails(message) ==
  /\ authOp' = [authOp EXCEPT !.pc = "idle", !.failed = authOp.authOk]
  /\ authResult' = [op |-> authOp.kind, data |-> Null, error |-> message]
  /\ setState([authState EXCEPT !.loading = FALSE, !.error = message], "op")

\* signUp returns { data: authData, error: null } after
\* setState(prev => ({ ...prev, loading: false })).
SignUpReturns(failed, profileData, profileError) ==
  /\ authOp' = [authOp EXCEPT !.pc = "idle", !.failed = failed,
                              !.profileData = profileData,
                              !.profileError = profileError,
                              !.readProfile = authOp.pc = "reread"]
  /\ authResult' = [op |-> "signUp", data |-> UserId, error |-> Null]
  /\ setState([authState EXCEPT !.loading = FALSE], "op")

\* await supabase.auth.signUp(...) returns: the identity is created with the
\* metadata, a session starts and the provider raises its event; or the
\* provider returns no user, returns an error, or the call throws.
SignUpAuth(o) ==
  /\ authOp.kind = "signUp" /\ authOp.pc = "auth"
  /\ o = "ok" => identity = NoIdentity
  /\ IF o = "ok"
       THEN /\ identity' = [full_name |-> authOp.fullName, role |-> authOp.role]
            /\ authSession' = TRUE
            /\ events' = Append(events, TRUE)
            /\ authOp' = [authOp EXCEPT !.pc = "select", !.authOk = TRUE]
            /\ UNCHANGED <<authState, lateUpdates, owed, authResult>>
       ELSE /\ OpFails(CASE o = "nouser" -> UserCreationFailed
                         [] o = "error" -> ProviderErrorMessage
                         [] OTHER -> ThrownErrorMessage)
            /\ UNCHANGED <<identity, authSession, events>>
  /\ UNCHANGED <<profiles, mounted, initRun, handlers, opsStarted>>
  /\ AuthFrame

\* A throw of the profile step of signUp: caught by the inner try of the
\* current hook, by the outer catch of the earlier one.
SignUpProfileThrows ==
  IF version = "current"
    THEN SignUpReturns(TRUE, authOp.profileData, authOp.profileError)
    ELSE OpFails(ThrownErrorMessage)

\* createUserProfile in signUp: its select returns.
SignUpCreateSelect(o) ==
  /\ authOp.kind = "signUp" /\ authOp.pc = "select"
  /\ LET existing == SelectProfile(profiles, UserId)
     IN CASE o = "throw" -> SignUpProfileThrows
          [] o = "error" -> SignUpReturns(TRUE, NoProfile, "other")
          [] existing # NoProfile -> SignUpReturns(FALSE, existing, Null)
          [] OTHER ->
               /\ authOp' = [authOp EXCEPT !.pc = "upsert"]
               /\ UNCHANGED <<authState, lateUpdates, owed, authResult>>
  /\ UNCHANGED <<identity, authSession, profiles, mounted, initRun, events, handlers,
                 opsStarted>>
  /\ AuthFrame

\* After createUserProfile returned in signUp: the current hook reads the
\* profile again when the error is a duplicate key.
SignUpAfterCreate(failed, upserted, data, error) ==
  IF version = "current" /\ error = "23505"
    THEN /\ authOp' = [authOp EXCEPT !.pc = "reread", !.failed = failed,
                                     !.upserted = upserted,
                                     !.profileData = data, !.profileError = error]
         /\ UNCHANGED <<authState, lateUpdates, owed, authResult>>
    ELSE /\ authOp' = [authOp EXCEPT !.pc = "idle", !.failed = failed,
                                     !.upserted = upserted,
                                     !.profileData = data, !.profileError = error]
         /\ authResult' = [op |-> "signUp", data |-> UserId, error |-> Null]
         /\ setState([authState EXCEPT !.loading = FALSE], "op")

\* createUserProfile in signUp: its upsert returns (code: the code of a
\* returned error).
SignUpCreateUpsert(o, code) ==
  /\ authOp.kind = "signUp" /\ authOp.pc = "upsert"
  /\ LET r == UpsertProfile(profiles, ProfileRow(authOp.fullName, authOp.role))
     IN CASE o = "throw" -> SignUpProfileThrows /\ UNCHANGED profiles
          [] o = "error" ->
               SignUpAfterCreate(TRUE, FALSE, NoProfile, code) /\ UNCHANGED profiles
          [] OTHER ->
               SignUpAfterCreate(FALSE, TRUE, r.data, r.error) /\ profiles' = r.rows
  /\ UNCHANGED <<identity, authSession, mounted, initRun, events, handlers, opsStarted>>
  /\ AuthFrame

\* await getUserProfile(authData.user.id) of the duplicate-key branch returns
\* (or throws into the inner catch).
SignUpReread(o) ==
  /\ authOp.kind = "signUp" /\ authOp.pc = "reread"
  /\ SignUpReturns(authOp.failed, authOp.profileData, authOp.profileError)
  /\ UNCHANGED <<identity, authSession, profiles, mounted, initRun, events, handlers,
                 opsStarted>>
  /\ AuthFrame

\* Faulty variant: a signIn that publishes the user itself on success.
SignInAuthPublishes(o) ==
  /\ authOp.kind = "signIn" /\ authOp.pc = "auth"
  /\ o = "ok" /\ identity # NoIdentity
  /\ authSession' = TRUE
  /\ events' = Append(events, TRUE)
  /\ authOp' = [authOp EXCEPT !.pc = "idle", !.authOk = TRUE, !.readProfile = TRUE]
  /\ authResult' = [op |-> "signIn", data |-> UserId, error |-> Null]
  /\ setState(SignedInState(SelectProfile(profiles, UserId)), "op")
  /\ UNCHANGED <<identity, profiles, mounted, initRun, handlers, opsStarted>>
  /\ AuthFrame

\* await supabase.auth.signInWithPassword(...) returns.
SignInAuth(o) ==
  /\ authOp.kind = "signIn" /\ authOp.pc = "auth"
  /\ o = "ok" => identity # NoIdentity
  /\ IF o = "ok"
       THEN /\ authSession' = TRUE
            /\ events' = Append(events, TRUE)
            /\ authOp' = [authOp EXCEPT !.pc = "idle", !.authOk = TRUE]
            /\ authResult' = [op |-> "signIn", data |-> UserId, error |-> Null]
            /\ owed' = owed \cup {"signIn"}
            /\ UNCHANGED <<authState, lateUpdates>>
       ELSE /\ OpFails(IF o = "error" THEN ProviderErrorMessage ELSE ThrownErrorMessage)
            /\ UNCHANGED <<authSession, events>>
  /\ UNCHANGED <<identity, profiles, mounted, initRun, handlers, opsStarted>>
  /\ AuthFrame

\* await supabase.auth.signOut() returns.
SignOutAuth(o) ==
  /\ authOp.kind = "signOut" /\ authOp.pc = "auth"
  /\ IF o = "ok"
       THEN /\ authSession' = FALSE
            /\ events' = Append(events, FALSE)
            /\ authOp' = [authOp EXCEPT !.pc = "idle", !.authOk = TRUE]
            /\ authResult' = [op |-> "signOut", data |-> Null, error |-> Null]
            /\ owed' = owed \cup {"signOut"}
            /\ UNCHANGED <<authState, lateUpdates>>
       ELSE /\ OpFails(IF o = "error" THEN ProviderErrorMessage ELSE ThrownErrorMessage)
            /\ UNCHANGED <<authSession, events>>
  /\ UNCHANGED <<identity, profiles, mounted, initRun, handlers, opsStarted>>
  /\ AuthFrame

\* Faulty variant: a clearError that also stops the spinner.
clearErrorAndLoading(state) == [state EXCEPT !.error = Null, !.loading = FALSE]

\* prev => ({ ...prev, error: null })
clearErrorOf(state) == [state EXCEPT !.error = Null]

clearError ==
  /\ mounted
  /\ authState.error # Null
  /\ authState' = clearErrorOf(authState)
  /\ owed' = {k \in owed : ~Settled(k, authState')}
  /\ UNCHANGED <<identity, authSession, profiles, mounted, initRun, events, handlers,
                 authOp, authResult, opsStarted, lateUpdates>>
  /\ AuthFrame

\* The effect's cleanup: mounted = false; subscription.unsubscribe().
teardown ==
  /\ mounted
  /\ mounted' = FALSE
  /\ UNCHANGED <<identity, authSession, profiles, authState, initRun, events, handlers,
                 authOp, authResult, opsStarted, lateUpdates, owed>>
  /\ AuthFrame

AuthNext ==
  \/ \E o \in Outcomes : GetSessionReturns(o)
  \/ \E o \in Outcomes : InitProfileRead(o)
  \/ DeliverEvent
  \/ \E h \in HandlerSlots, o \in Outcomes : HandlerProfileRead(h, o)
  \/ \E h \in HandlerSlots, o \in Outcomes : HandlerCreateSelect(h, o)
  \/ \E h \in HandlerSlots, o \in Outcomes : HandlerCreateUpsert(h, o)
  \/ \E fullName \in FullNames, role \in UserRoles : StartSignUp(fullName, role)
  \/ StartSignIn
  \/ StartSignOut
  \/ \E o \in Outcomes \cup {"nouser"} : SignUpAuth(o)
  \/ \E o \in Outcomes : SignUpCreateSelect(o)
  \/ \E o \in Outcomes, code \in {"23505", "other"} : SignUpCreateUpsert(o, code)
  \/ \E o \in Outcomes : SignUpReread(o)
  \/ \E o \in Outcomes : SignInAuth(o)
  \/ \E o \in Outcomes : SignOutAuth(o)
  \/ clearError
  \/ teardown

SpecAuth == InitAuth /\ [][AuthNext]_vars

\* The provider delivers every event it raised and every remote call of a
\* running callback returns.
AuthFairness ==
  /\ WF_vars(DeliverEvent)
  /\ \A h \in HandlerSlots :
       /\ WF_vars(\E o \in Outcomes : HandlerProfileRead(h, o))
       /\ WF_vars(\E o \in Outcomes : HandlerCreateSelect(h, o))
       /\ WF_vars(\E o \in Outcomes : HandlerCreateUpsert(h, o))

SpecAuthLive == SpecAuth /\ AuthFairness

\* ---- the hook mounting while a session exists
\* Here the profile read of getInitialSession is taken in two steps, the
\* select running in the store and its result coming back to the hook, so that
\* the remote calls of the callback can fall between them.  The provider calls
\* the callback once for the session present when the hook subscribes.
InitAuthStart ==
  /\ InitWith({}) /\ AccessIdle /\ ClockIdle /\ ViewIdle
  /\ version \in Versions
  /\ identity \in SignupMetadata \cup OtherMetadata
  /\ authSession = TRUE
  /\ profiles \in (IF identity \in SignupMetadata
                     THEN {<<>>, <<ProfileRow(identity.full_name, identity.role)>>}
                     ELSE {<<>>})
  /\ authState = InitialAuthState
  /\ mounted = TRUE
  /\ initRun = InitStarts
  /\ events = <<TRUE>>
  /\ handlers = [h \in HandlerSlots |-> IdleHandler]
  /\ authOp = IdleOp
  /\ authResult = NoResult
  /\ opsStarted = 0
  /\ lateUpdates = {}
  /\ owed = {}

\* The select of getUserProfile runs in the store for getInitialSession.
InitProfileQuery ==
  /\ initRun.pc = "read"
  /\ initRun' = [pc |-> "response",
                 read |-> IF HasProfile(profiles, UserId) THEN "row" ELSE "none"]
  /\ UNCHANGED <<identity, authSession, profiles, authState, mounted, events, handlers,
                 authOp, authResult, opsStarted, lateUpdates, owed>>
  /\ AuthFrame

\* await getUserProfile(session.user.id) returns in getInitialSession with
\* what the select found.
InitProfileResponse(o) ==
  /\ initRun.pc = "response"
  /\ LET data == IF initRun.read = "row" THEN SelectProfile(profiles, UserId)
                 ELSE NoProfile
     IN CASE o = "ok" ->
               /\ initRun' = InitDone(initRun.read)
               /\ initSetState([user |-> UserId, profile |-> data,
                                loading |-> FALSE, error |-> Null])
          [] o = "error" ->
               /\ initRun' = InitDone("error")
               /\ initSetState([authState EXCEPT !.user = UserId, !.profile = NoProfile,
                                                 !.error = ProfileNotFound,
                                                 !.loading = FALSE])
          [] OTHER ->
               /\ initRun' = InitDone("threw")
               /\ setStateIfMounted([authState EXCEPT !.error = FailedToInitialize,
                                                      !.loading = FALSE])
  /\ UNCHANGED <<identity, authSession, profiles, mounted, events, handlers, authOp,
                 authResult, opsStarted>>
  /\ AuthFrame

AuthStartNext ==
  \/ \E o \in Outcomes : GetSessionReturns(o)
  \/ InitProfileQuery
  \/ \E o \in Outcomes : InitProfileResponse(o)
  \/ DeliverEvent
  \/ \E h \in HandlerSlots, o \in Outcomes : HandlerProfileRead(h, o)
  \/ \E h \in HandlerSlots, o \in Outcomes : HandlerCreateSelect(h, o)
  \/ \E h \in HandlerSlots, o \in Outcomes : HandlerCreateUpsert(h, o)
  \/ clearError
  \/ teardown

SpecAuthStart == InitAuthStart /\ [][AuthStartNext]_vars

\* ------------------------------------------------------------ App, Dashboard
\* The two copies of App: src/App.tsx and the one with the error screens.
AppVariants == {"App", "AppWithErrorScreens"}

\* Faulty variant: App without the test of profile.
AppRendersWithoutProfileTest(variant, state) ==
  IF state.loading THEN "Loading"
  ELSE IF state.user = Null THEN "AuthForm"
  ELSE "Dashboard"

\* What App returns for the state its useAuth() gives it.
AppRenders(variant, state) ==
  IF state.loading THEN "Loading"
  ELSE IF variant = "AppWithErrorScreens" /\ state.error # Null /\ state.user = Null
    THEN "AuthenticationError"
  ELSE IF variant = "AppWithErrorScreens" /\ state.user # Null /\ state.profile = NoProfile
    THEN "ProfileNotFound"
  ELSE IF state.user = Null \/ state.profile = NoProfile THEN "AuthForm"
  ELSE "Dashboard"

\* What Dashboard returns for the profile its own useAuth() gives it.
DashboardRenders(profile) ==
  IF profile = NoProfile THEN "nothing"
  ELSE IF profile.role = "admin" THEN "AdminDashboard"
  ELSE "StudentDashboard"

\* The profiles a useAuth() can publish.
PublishedProfiles == {NoProfile} \cup {ProfileRow(n, r) : n \in FullNames, r \in UserRoles}

\* -------------------------------------------------------- NotificationCenter
\* The notifications of one user, seen from two browser sessions of that user.
NotificationIds == {"n1", "n2"}
CenterSessions == {"c1", "c2"}
NotificationTypes == {"info", "success"}
Filters == {"all", "unread"}

\* A place of the table: no row yet, a stored row, or a deleted one.
NoRow == [stored |-> "no", read |-> FALSE, type |-> ""]
DeletedRow == [stored |-> "deleted", read |-> FALSE, type |-> ""]
StoredIds(rows) == {n \in NotificationIds : rows[n].stored = "yes"}

NoCall == [op |-> "none", session |-> "", ids |-> {}, wrote |-> FALSE, ok |-> FALSE]
Called(op, c, ids, wrote, ok) ==
  [op |-> op, session |-> c, ids |-> ids, wrote |-> wrote, ok |-> ok]

\* Faulty variant: an update without its filter on id.
UpdateReadAllRows(rows, ids) ==
  [n \in NotificationIds |->
     IF rows[n].stored = "yes" THEN [rows[n] EXCEPT !.read = TRUE] ELSE rows[n]]

\* UPDATE notifications SET read = true WHERE id IN (ids): .eq('id', id) is
\* the case of one id.  An id that has no row any more updates nothing.
UpdateRead(rows, ids) ==
  [n \in NotificationIds |->
     IF n \in ids /\ rows[n].stored = "yes"
       THEN [rows[n] EXCEPT !.read = TRUE] ELSE rows[n]]

\* DELETE FROM notifications WHERE id = ...
DeleteRow(rows, id) ==
  [rows EXCEPT ![id] = IF rows[id].stored = "yes" THEN DeletedRow ELSE rows[id]]

\* A handler of another view inserts a notification for the user: read takes
\* its DEFAULT false.
NotificationInserted(n, type) ==
  /\ ncRows[n].stored = "no"
  /\ ncRows' = [ncRows EXCEPT ![n] = [stored |-> "yes", read |-> FALSE, type |-> type]]
  /\ ncLast' = Called("insert", "", {}, FALSE, FALSE)
  /\ UNCHANGED <<ncLoaded, ncFilter, panelVars>>
  /\ UNCHANGED <<lifeVars, accessVars, clockVars, authVars>>

\* What select('*').eq('user_id', profile.id) returns.
SelectNotifications(rows) ==
  {[id |-> n, read |-> rows[n].read, type |-> rows[n].type] : n \in StoredIds(rows)}

\* StudentDashboard.fetchNotifications: the list is replaced on success and
\* kept on error.
NotificationsFetched(c, rows, ok) ==
  IF ok THEN SelectNotifications(rows) ELSE ncLoaded[c]

\* fetchNotifications run by the dashboard (its effect, or a reload).
fetchNotifications(c, ok) ==
  /\ ncLoaded' = [ncLoaded EXCEPT ![c] = NotificationsFetched(c, ncRows, ok)]
  /\ ncLast' = Called("fetchNotifications", c, {}, FALSE, ok)
  /\ UNCHANGED <<ncRows, ncFilter, panelVars>>
  /\ UNCHANGED <<lifeVars, accessVars, clockVars, authVars>>

\* The filter select.
setFilter(c, f) ==
  /\ f # ncFilter[c]
  /\ ncFilter' = [ncFilter EXCEPT ![c] = f]
  /\ ncLast' = Called("setFilter", c, {}, FALSE, FALSE)
  /\ UNCHANGED <<ncRows, ncLoaded, panelVars>>
  /\ UNCHANGED <<lifeVars, accessVars, clockVars, authVars>>

\* filteredNotifications of a list under a filter.
filteredNotifications(list, f) ==
  {n \in list : IF f = "unread" THEN ~n.read ELSE TRUE}

\* unreadIds of markAllAsRead; unreadCount is its size.
unreadIds(list) == {n.id : n \in {m \in list : ~m.read}}
unreadCount(list) == Cardinality(unreadIds(list))

\* markAsRead(notification.id) from the button of a shown row that is
\* unread in the loaded list: the update, then onRefresh(); an error is
\* thrown to the catch block, which only logs.
markAsRead(c, id, ok, okFetch) ==
  /\ \E n \in filteredNotifications(ncLoaded[c], ncFilter[c]) : n.id = id /\ ~n.read
  /\ ncRows' = IF ok THEN UpdateRead(ncRows, {id}) ELSE ncRows
  /\ ncLoaded' = [ncLoaded EXCEPT
        ![c] = IF ok THEN NotificationsFetched(c, ncRows', okFetch) ELSE ncLoaded[c]]
  /\ ncLast' = Called("markAsRead", c, {id}, TRUE, ok)
  /\ UNCHANGED <<ncFilter, panelVars>>
  /\ UNCHANGED <<lifeVars, accessVars, clockVars, authVars>>

\* markAllAsRead: nothing is written when the loaded list has no unread row.
markAllAsRead(c, ok, okFetch) ==
  LET ids == unreadIds(ncLoaded[c]) IN
  /\ IF ids = {}
       THEN /\ ncLast' = Called("markAllAsRead", c, {}, FALSE, FALSE)
            /\ UNCHANGED <<ncRows, ncLoaded>>
       ELSE /\ ncRows' = IF ok THEN UpdateRead(ncRows, ids) ELSE ncRows
            /\ ncLoaded' = [ncLoaded EXCEPT
                  ![c] = IF ok THEN NotificationsFetched(c, ncRows', okFetch)
                               ELSE ncLoaded[c]]
            /\ ncLast' = Called("markAllAsRead", c, ids, TRUE, ok)
  /\ UNCHANGED <<ncFilter, panelVars>>
  /\ UNCHANGED <<lifeVars, accessVars, clockVars, authVars>>

\* The "Mark all as read" button is rendered when unreadCount > 0.
MarkAllButtonShown(c) == unreadCount(ncLoaded[c]) > 0

\* deleteNotification(notification.id) from the button of a shown row.
deleteNotification(c, id, ok, okFetch) ==
  /\ \E n \in filteredNotifications(ncLoaded[c], ncFilter[c]) : n.id = id
  /\ ncRows' = IF ok THEN DeleteRow(ncRows, id) ELSE ncRows
  /\ ncLoaded' = [ncLoaded EXCEPT
        ![c] = IF ok THEN NotificationsFetched(c, ncRows', okFetch) ELSE ncLoaded[c]]
  /\ ncLast' = Called("deleteNotification", c, {id}, TRUE, ok)
  /\ UNCHANGED <<ncFilter, panelVars>>
  /\ UNCHANGED <<lifeVars, accessVars, clockVars, authVars>>

\* The sessions before their first fetch returns; the table may hold rows
\* already.
InitCenter ==
  /\ InitWith({}) /\ AccessIdle /\ ClockIdle /\ AuthIdle /\ PanelIdle
  /\ ncRows = [n \in NotificationIds |-> NoRow]
  /\ ncLoaded = [c \in CenterSessions |-> {}]
  /\ ncFilter = [c \in CenterSessions |-> "all"]
  /\ ncLast = NoCall

CenterNext ==
  \/ \E n \in NotificationIds, type \in NotificationTypes : NotificationInserted(n, type)
  \/ \E c \in CenterSessions, ok \in BOOLEAN : fetchNotifications(c, ok)
  \/ \E c \in CenterSessions, f \in Filters : setFilter(c, f)
  \/ \E c \in CenterSessions, id \in NotificationIds, ok, okFetch \in BOOLEAN :
       markAsRead(c, id, ok, okFetch)
  \/ \E c \in CenterSessions, ok, okFetch \in BOOLEAN :
       MarkAllButtonShown(c) /\ markAllAsRead(c, ok, okFetch)
  \/ \E c \in CenterSessions, id \in NotificationIds, ok, okFetch \in BOOLEAN :
       deleteNotification(c, id, ok, okFetch)

SpecCenter == InitCenter /\ [][CenterNext]_vars

\* ===================================================================== claims
\* The store gained exactly the one row `row`.
GainedRow(row) == notifications' = notifications (+) SetToBag({row})

\* C1: once the stored status of an application is rejected or
\* interview_scheduled, no step of any view changes it again.
C1_TerminalStatusIsFinal ==
  [][\A i \in Ids(applications) :
       applications[i].status \in {"rejected", "interview_scheduled"}
         => applications'[i].status = applications[i].status]_vars

\* C2: a stored status is one of the four values, a new row starts pending, and
\* every change of a stored status follows one of the three lifecycle edges.
C2_StatusFollowsEdges ==
  [][\A i \in Ids(applications') :
       /\ applications'[i].status \in StatusValues
       /\ IF i \in Ids(applications)
            THEN applications'[i].status # applications[i].status
                   => <<applications[i].status, applications'[i].status>> \in LifecycleEdges
            ELSE applications'[i].status = "pending"]_vars

\* C3: an application whose status is interview_scheduled has an interview row
\* that references it.
C3_ScheduledHasInterview ==
  \A i \in Ids(applications) :
    applications[i].status = "interview_scheduled"
      => \E k \in Ids(interviews) : interviews[k].application_id = i

\* C4: when the interviews insert of handleScheduleInterview returns an error,
\* the handler ends there: no status is written, no notification is inserted,
\* the schedule form keeps its state, and the later steps of the handler run
\* only after an insert that succeeded.
C4_FailedInsertKeepsState ==
  /\ [](\A a \in AdminSessions :
          adminCall[a].pc \in {"schedUpdate", "schedNotify"} => ~schedForm[a].insertFailed)
  /\ [][\A a \in AdminSessions :
          (~schedForm[a].insertFailed /\ schedForm'[a].insertFailed)
            => /\ applications' = applications
               /\ notifications' = notifications
               /\ interviews' = interviews
               /\ adminCall'[a].pc = "idle"
               /\ schedForm'[a].show
               /\ schedForm'[a].selected = schedForm[a].selected
               /\ ~schedForm'[a].loading]_vars

\* A failed interviews insert for an application that is shortlisted.
C4_Witness ==
  \E a \in AdminSessions :
    /\ schedForm[a].insertFailed
    /\ schedForm[a].show
    /\ schedForm[a].selected.id \in Ids(applications)
    /\ applications[schedForm[a].selected.id].status = "shortlisted"
    /\ adminCall[a].pc = "idle"

\* C5: a handler whose status write followed a lifecycle edge inserts, before
\* it ends, exactly one notification for the student of the application, of
\* type info for rejected and success otherwise, with a title and a message.
C5_TransitionInsertsOneNotification ==
  [][\A a \in AdminSessions :
       LET c == adminCall[a] IN
       (c.pc \in {"notify", "schedNotify"} /\ adminCall'[a].pc = "idle" /\ c.edge)
         => \E row \in BagToSet(notifications') :
              /\ GainedRow(row)
              /\ row.user_id = applications[c.app.id].student_id
              /\ row.type = (IF c.status = "rejected" THEN "info" ELSE "success")
              /\ row.title # ""
              /\ row.message # ""]_vars

\* The confirmation row of a submission by student u.
SubmittedRow(u) ==
  [user_id |-> u, title |-> SubmittedTitle, message |-> SubmittedMessage,
   type |-> "success", read |-> FALSE]
IsSubmittedRowOf(u, r) == r.user_id = u /\ r.title = SubmittedTitle /\ r.type = "success"
\* Confirmation rows of student u, counted with their copies.
SubmittedCount(u) ==
  LET S == {r \in BagToSet(notifications) : IsSubmittedRowOf(u, r)}
  IN BagCardinality([r \in S |-> notifications[r]])
RowsOf(job, u) ==
  {i \in Ids(applications) : applications[i].job_id = job /\ applications[i].student_id = u}

C7_DuplicateShownAsAlreadyApplied ==
  \A s \in DOMAIN studentForm :
    studentForm[s].errorCode = UniqueViolationError.code
      => studentForm[s].error = AlreadyAppliedMessage

\* C8: at most one application per (job_id, student_id).
C8_OneApplicationPerPair ==
  \A i, j \in Ids(applications) :
    (applications[i].job_id = applications[j].job_id
       /\ applications[i].student_id = applications[j].student_id) => i = j

\* A second submission for a pair was made and rejected by the store.
C8_Witness ==
  \E s \in DOMAIN studentForm :
    /\ studentForm[s].errorCode = UniqueViolationError.code
    /\ Cardinality(RowsOf(studentForm[s].job, sessionProfile[s])) = 1

\* C9 as claimed: for stored status scheduled and scheduled_date T, a render at
\* now shows upcoming for T-30 <= now < T-15, live for T-15 <= now <= T+60 and
\* past for now > T+60.
C9_WindowClassification ==
  ivStatus = "scheduled" =>
    LET now == renderedAt
        T == ivDate
    IN /\ (T - 30 <= now /\ now < T - 15) => classification = "upcoming"
       /\ (T - 15 <= now /\ now <= T + 60) => classification = "live"
       /\ now > T + 60 => classification = "past"

\* C10 as claimed: a meeting is opened only after a passcode that matches the
\* stored one (both trimmed and upper-cased) and is not the empty text was
\* entered for that interview, and never for a field never changed.
C10_OpenedOnlyWithPasscode ==
  /\ opened \subseteq everMatchedText
  /\ \A id \in InterviewIds : ~passcodeInputs[id].set => id \notin opened

\* C10 as amended: a meeting is opened, and an interview verified, only after a
\* passcode that matches the stored one (both trimmed and upper-cased) was
\* entered for that same interview, never for a field never changed, and with
\* the empty text only when the stored passcode is blank.
C10_OpenedOnlyAfterMatch ==
  /\ opened \subseteq everMatched
  /\ verifiedInterviews \subseteq everMatched
  /\ \A id \in InterviewIds :
       /\ ~passcodeInputs[id].set => id \notin opened
       /\ (id \in opened /\ id \notin everMatchedText) => trim(passcode[id]) = <<>>

\* One interview was opened with its passcode while another, holding the same
\* passcode up to case and blanks, has a wrong text in its field and is closed.
C10_Witness ==
  \E id, other \in InterviewIds :
    /\ id # other
    /\ id \in opened
    /\ toUpperCase(trim(passcode[id])) = toUpperCase(trim(passcode[other]))
    /\ passcode[id] # passcode[other]
    /\ passcodeInputs[other].set
    /\ passcodeInputs[other].value # <<>>
    /\ other \notin everMatched
    /\ other \notin opened

\* The rows of profiles of the identity.
ProfilesOfUser == {i \in 1..Len(profiles) : profiles[i].id = UserId}
\* The profile the submitted values make (signUp stores them in the identity).
SubmittedProfile == ProfileRow(identity.full_name, identity.role)
\* createUserProfile returned in this callback / in signUp.
HandlerCreated(h) ==
  /\ handlers[h].pc = "idle"
  /\ handlers[h].end \in {"created", "createError"}
SignUpCreated ==
  /\ authOp.kind = "signUp" /\ authOp.pc = "idle" /\ authOp.authOk
  /\ authResult.op = "signUp"

\* C11: after signUp, whichever way the createUserProfile of signUp and the one
\* of the session-change callback interleave, there is at most one profile row
\* of the identity, it holds the submitted full_name and role, and an attempt
\* none of whose remote calls failed returns that row and no error, leaving
\* exactly one row.
C11_OneProfileFromConcurrentCreates ==
  /\ Cardinality(ProfilesOfUser) <= 1
  /\ \A i \in ProfilesOfUser : profiles[i] = SubmittedProfile
  /\ (SignUpCreated /\ ~authOp.failed) =>
        /\ authOp.profileError = Null
        /\ authOp.profileData = ProfileRow(authOp.fullName, authOp.role)
        /\ profiles = <<authOp.profileData>>
  /\ \A h \in HandlerSlots :
        (HandlerCreated(h) /\ ~handlers[h].failed) =>
           /\ handlers[h].createError = Null
           /\ handlers[h].newProfile = SubmittedProfile
           /\ profiles = <<SubmittedProfile>>

\* Both attempts found no row and both applied their upsert.
C11_Witness ==
  /\ SignUpCreated /\ authOp.upserted /\ ~authOp.failed
  /\ \E h \in HandlerSlots :
       HandlerCreated(h) /\ handlers[h].upserted /\ ~handlers[h].failed
  /\ profiles = <<ProfileRow(authOp.fullName, authOp.role)>>

\* C12 as claimed: when the profile read of getInitialSession finds no row for
\* the session's identity, the state published is user = the session user,
\* profile = null, error = "Profile not found", loading = false.
C12_NoRowPublishesProfileNotFound ==
  [][(initRun.pc = "read" /\ initRun'.pc = "done" /\ initRun'.read = "none" /\ mounted)
       => authState' = [user |-> UserId, profile |-> NoProfile,
                        error |-> ProfileNotFound, loading |-> FALSE]]_vars

\* C13 as claimed: a callback that found no profile and then ends because the
\* metadata lacks full_name or role, or because createUserProfile failed
\* (returned an error or threw), publishes user = the session user, profile =
\* null, loading = false and the contact-support error, and is at rest.
C13_FailedCreatePublishesContactSupport ==
  [][\A h \in HandlerSlots :
       (/\ handlers[h].pc \in {"read", "select", "upsert"}
        /\ handlers'[h].pc = "idle"
        /\ \/ handlers'[h].end \in {"nometa", "createError"}
           \/ handlers'[h].end = "threw" /\ handlers[h].pc # "read"
        /\ mounted)
       => authState' = ContactSupportState]_vars

\* C14 as claimed: when signUp created the identity and its createUserProfile
\* step returned an error or threw, signUp returns data = the identity and
\* error = null, sets loading to false and does not touch the error field.
C14_SignUpSurvivesProfileFailure ==
  [][(/\ authOp.kind = "signUp" /\ authOp.pc \in {"select", "upsert", "reread"}
      /\ authOp'.pc = "idle"
      /\ authOp'.failed)
       => /\ authResult' = [op |-> "signUp", data |-> UserId, error |-> Null]
          /\ mounted => (~authState'.loading /\ authState'.error = authState.error)]_vars

\* The operation in flight returns in this step.
OpReturns == authOp.pc # "idle" /\ authOp'.pc = "idle"

\* C15: a successful signIn or signOut returns with user and profile as they
\* were and without having read the profile; user and profile change only in
\* a step of getInitialSession or of the session-change callback.
C15_SignInOutLeaveUserAndProfile ==
  /\ [][(OpReturns /\ authOp.kind \in {"signIn", "signOut"} /\ authOp'.authOk)
          => /\ authState'.user = authState.user
             /\ authState'.profile = authState.profile
             /\ ~authOp'.readProfile]_vars
  /\ [][(authState'.user # authState.user \/ authState'.profile # authState.profile)
          => (initRun' # initRun \/ handlers' # handlers \/ Len(events') < Len(events))]_vars

\* signOut has returned without an error and the published user and profile
\* are still those of the signed-in identity.
C15_Witness ==
  /\ authResult = [op |-> "signOut", data |-> Null, error |-> Null]
  /\ authState.user = UserId /\ authState.profile # NoProfile
  /\ mounted

\* A remote call of a session-change callback threw instead of returning.
HandlerCallThrew == \E h \in HandlerSlots : handlers[h].end = "threw"

\* C16: when the events are delivered and no remote call of a callback throws,
\* then while the hook stays mounted a successful signIn is followed by a
\* published state with loading = false and user set, with the profile or an
\* error, and a successful signOut by the cleared state.
C16_SignInOutEventuallySettle ==
  \/ <>HandlerCallThrew
  \/ /\ ("signIn" \in owed /\ mounted) ~> ("signIn" \notin owed \/ ~mounted)
     /\ ("signOut" \in owed /\ mounted) ~> ("signOut" \notin owed \/ ~mounted)

\* A signIn and then a signOut succeeded, both were followed by their state,
\* and the hook is still mounted.
C16_Witness ==
  /\ opsStarted = 2
  /\ authResult = [op |-> "signOut", data |-> Null, error |-> Null]
  /\ owed = {}
  /\ authState.user = Null /\ ~authState.loading
  /\ \E h \in HandlerSlots : handlers[h].end = "found"
  /\ mounted

\* C17: clearError sets error to null and leaves user, profile and loading as
\* they were, twice is as once, and the step changes nothing but the state.
C17_ClearErrorOnlyClearsError ==
  /\ [](LET once == clearErrorOf(authState)
        IN /\ once.error = Null
           /\ once.user = authState.user
           /\ once.profile = authState.profile
           /\ once.loading = authState.loading
           /\ clearErrorOf(once) = once)
  /\ [][(authState' # authState
         /\ UNCHANGED <<initRun, handlers, events, authOp, opsStarted, mounted>>)
          => /\ authState' = clearErrorOf(authState)
             /\ UNCHANGED <<identity, authSession, profiles, authResult>>]_vars

\* The only operation failed and set its message, and while nothing else has
\* published yet the error is null again.
C17_Witness ==
  /\ opsStarted = 1 /\ authOp.pc = "idle"
  /\ authResult.error # Null
  /\ authState.error = Null /\ ~authState.loading
  /\ initRun.pc = "getSession"
  /\ handlers = [h \in HandlerSlots |-> IdleHandler]
  /\ mounted

\* C18 as claimed: an operation that returns hands back a result pair whose
\* error is set exactly when its provider call failed, and it writes a message
\* to the published error exactly then.
C18_ErrorExactlyWhenProviderFailed ==
  [][OpReturns
       => /\ authResult'.op = authOp.kind
          /\ (authResult'.error # Null) <=> ~authOp'.authOk
          /\ mounted => authState'.error =
                          (IF authOp'.authOk THEN authState.error ELSE authResult'.error)]_vars

\* C19 as claimed: neither getInitialSession nor a session-change callback
\* calls setState after teardown.
C19_NoUpdateAfterTeardown == lateUpdates \cap {"init", "handler"} = {}

\* C20 as claimed: when signUp, signIn or signOut returns, loading is false.
C20_LoadingClearedOnReturn ==
  [][(OpReturns /\ mounted) => ~authState'.loading]_vars

\* C21: App returns the Dashboard only for a state with loading = false and
\* user and profile set, so never for a user whose profile is null; and
\* Dashboard shows AdminDashboard exactly for a profile whose role is admin,
\* StudentDashboard for any other profile and nothing without a profile.
C21_ShellOnlyWithUserAndProfile ==
  /\ \A v \in AppVariants :
       /\ AppRenders(v, authState) = "Dashboard"
            => ~authState.loading /\ authState.user # Null /\ authState.profile # NoProfile
       /\ (authState.user # Null /\ authState.profile = NoProfile)
            => AppRenders(v, authState) \in {"Loading", "AuthForm", "ProfileNotFound"}
  /\ \A profile \in PublishedProfiles :
       /\ DashboardRenders(profile) = "AdminDashboard"
            <=> (profile # NoProfile /\ profile.role = "admin")
       /\ DashboardRenders(profile) = "nothing" <=> profile = NoProfile
  /\ AppRenders("App", authState) = "Dashboard"
       => DashboardRenders(authState.profile) =
            (IF authState.profile.role = "admin" THEN "AdminDashboard" ELSE "StudentDashboard")

\* The hook published an admin's profile and App shows the Dashboard, after an
\* earlier state of this behaviour had the user without a profile.
C21_Witness ==
  /\ AppRenders("App", authState) = "Dashboard"
  /\ DashboardRenders(authState.profile) = "AdminDashboard"
  /\ \E h \in HandlerSlots : handlers[h].end \in {"nometa", "createError", "threw"}

\* The notification updateApplicationStatus writes for a row of a student.
TransitionRow(student, status) ==
  [user_id |-> student, title |-> notificationTitle(status),
   message |-> notificationMessage(status), type |-> notificationType(status),
   read |-> FALSE]

\* C22: a status write of updateApplicationStatus is applied whatever status
\* is stored (the stored status becomes the one written, also when another
\* session changed it since the list was loaded), each write is followed by
\* the insert of its one notification, which adds that row and no other, and
\* so the stored status after two writes is the one written last.
C22_LastWriteWins ==
  [][\A a \in AdminSessions :
       /\ (adminCall[a].pc = "idle" /\ adminCall'[a].pc = "notify")
            => LET c == adminCall'[a] IN
               /\ applications' = [applications EXCEPT ![c.app.id].status = c.status]
               /\ notifications' = notifications
       /\ (adminCall[a].pc = "notify" /\ adminCall'[a].pc = "idle")
            => /\ applications' = applications
               /\ \/ GainedRow(TransitionRow(adminCall[a].app.student_id, adminCall[a].status))
                  \/ notifications' = notifications]_vars

\* The application was rejected and then, from a list that still showed it as
\* pending, shortlisted: both notifications are there and the stored status is
\* shortlisted.
C22_Witness ==
  /\ Len(applications) = 1
  /\ applications[1].status = "shortlisted"
  /\ BagIn(TransitionRow(applications[1].student_id, "rejected"), notifications)
  /\ BagIn(TransitionRow(applications[1].student_id, "shortlisted"), notifications)
  /\ \A a \in AdminSessions : adminCall[a].pc = "idle"

C24_NotificationOnlyAfterStatusUpdate ==
  [][\A a \in AdminSessions :
       LET c == adminCall[a]
           d == adminCall'[a]
       IN
       /\ (d.pc \in {"notify", "schedNotify"} /\ d.pc # c.pc)
            => /\ applications' = [applications EXCEPT ![d.app.id].status = d.status]
               /\ notifications' = notifications
       /\ (c.pc = "schedUpdate" /\ d.pc = "idle")
            => /\ applications' = applications
               /\ notifications' = notifications
               /\ adminApps' = adminApps
               /\ schedForm'[a].show /\ schedForm'[a].selected = schedForm[a].selected
               /\ ~schedForm'[a].loading
       /\ (\E row \in BagToSet(notifications') :
             /\ GainedRow(row)
             /\ row.title \in {notificationTitle(st) : st \in StatusValues})
            => \E b \in AdminSessions :
                 adminCall[b].pc \in {"notify", "schedNotify"} /\ adminCall'[b].pc = "idle"]_vars

\* The interviews insert of handleScheduleInterview succeeded and its status
\* update failed: the row is there, the status is still shortlisted, no
\* interview notification was written and the form is still open.
C24_Witness ==
  \E a \in AdminSessions :
    /\ adminCall[a].pc = "idle"
    /\ schedForm[a].show /\ ~schedForm[a].loading /\ ~schedForm[a].insertFailed
    /\ schedForm[a].selected.id \in Ids(applications)
    /\ applications[schedForm[a].selected.id].status = "shortlisted"
    /\ \E k \in Ids(interviews) : interviews[k].application_id = schedForm[a].selected.id
    /\ ~BagIn(TransitionRow(schedForm[a].selected.student_id, "interview_scheduled"),
              notifications)

\* The classifications getInterviewStatus names.
Classifications == {"scheduled", "upcoming", "live", "past", "completed", "cancelled"}

\* C25: getInterviewStatus returns one of the six classifications for every
\* stored status, date and instant; completed and cancelled are returned for a
\* stored status of that name at every instant; and a stored status of
\* scheduled gives scheduled at every instant more than 30 minutes before the
\* date.  What is rendered is that value.
C25_ClassificationIsTotal ==
  /\ classification = getInterviewStatus(ivStatus, ivDate, renderedAt)
  /\ \A now \in (ivDate - MaxLead)..(ivDate + MaxTail) :
       LET shown == getInterviewStatus(ivStatus, ivDate, now) IN
       /\ shown \in Classifications
       /\ ivStatus \in {"completed", "cancelled"} => shown = ivStatus
       /\ (ivStatus = "scheduled" /\ now < ivDate - 30) => shown = "scheduled"
       /\ shown \in {"completed", "cancelled"} => ivStatus = shown

\* A cancelled interview rendered after its hour has passed.
C25_Witness ==
  /\ ivStatus = "cancelled"
  /\ renderedAt > ivDate + InterviewLength
  /\ classification = "cancelled"

\* The interview rows of application i.
InterviewsOf(i) == {k \in Ids(interviews) : interviews[k].application_id = i}

\* C26 as claimed: an interview row is inserted only for an application whose
\* stored status is shortlisted, and no application has more than one
\* interview row.
C26_OneInterviewPerApplication ==
  /\ [](\A i \in Ids(applications) : Cardinality(InterviewsOf(i)) <= 1)
  /\ [][Len(interviews') > Len(interviews)
          => applications[interviews'[Len(interviews')].application_id].status
               = "shortlisted"]_vars

\* C28 as claimed: when getInitialSession ended without reading a profile,
\* the last session-change event was the one of a successful signOut, it was
\* delivered, and no callback is running any more, the published user and
\* profile are null.
C28_StateFollowsLastEvent ==
  (/\ authResult = [op |-> "signOut", data |-> Null, error |-> Null]
   /\ authOp.pc = "idle"
   /\ events = <<>>
   /\ \A h \in HandlerSlots : handlers[h].pc = "idle"
   /\ initRun = InitDone("")
   /\ mounted)
    => authState.user = Null /\ authState.profile = NoProfile

\* C29 as claimed: when the callback has published a profile and the profile
\* read of getInitialSession then returns its result (a row or none, no
\* error), the published profile is still set and no error is set.
C29_InitKeepsPublishedProfile ==
  [][(/\ mounted
      /\ authState.profile # NoProfile
      /\ \E h \in HandlerSlots : handlers[h].end \in {"found", "created"}
      /\ initRun.pc # "done" /\ initRun'.pc = "done"
      /\ initRun'.read \in {"row", "none"})
       => authState'.profile # NoProfile /\ authState'.error = Null]_vars


\* What a successful update of the rows `ids` leaves in place n of the table.
ReadSet(n, ids, ok) ==
  IF ok /\ n \in ids /\ ncRows[n].stored = "yes"
    THEN [ncRows[n] EXCEPT !.read = TRUE] ELSE ncRows[n]

\* C27: markAllAsRead targets exactly the rows that are unread in the loaded
\* list, writes nothing when there is none, and changes nothing but their
\* read, which becomes true; markAsRead(id) does so for the one row id; no
\* step of the view takes a stored row's read from true back to false; the
\* unread filter shows exactly the loaded rows whose read is false.
C27_MarkReadTouchesOnlyItsRows ==
  [][LET call == ncLast' IN
     /\ call.op = "markAllAsRead" =>
          /\ call.ids = {n.id : n \in {m \in ncLoaded[call.session] : m.read = FALSE}}
          /\ call.wrote <=> call.ids # {}
          /\ \A n \in NotificationIds : ncRows'[n] = ReadSet(n, call.ids, call.ok)
     /\ call.op = "markAsRead" =>
          /\ \E id \in NotificationIds : call.ids = {id}
          /\ \A n \in NotificationIds : ncRows'[n] = ReadSet(n, call.ids, call.ok)
     /\ \A n \in NotificationIds :
          ncRows[n].stored = "yes" /\ ncRows[n].read /\ ncRows'[n].stored = "yes"
            => ncRows'[n].read
     /\ \A c \in CenterSessions :
          filteredNotifications(ncLoaded'[c], "unread")
            = {n \in ncLoaded'[c] : n.read = FALSE}]_vars

\* markAllAsRead has marked n1, the one row that was unread in its list, and
\* n2, stored since that list was loaded, is still unread.
C27_Witness ==
  /\ ncLast.op = "markAllAsRead" /\ ncLast.ok /\ ncLast.ids = {"n1"}
  /\ ncRows["n1"].stored = "yes" /\ ncRows["n1"].read
  /\ ncRows["n2"].stored = "yes" /\ ~ncRows["n2"].read


\* C30: the passcode field and the Join button are offered exactly for the
\* classifications scheduled, upcoming and live, and are used only then; an
\* interview that is verified stays verified until the component is mounted
\* again; a joinMeeting call for a verified interview opens its URL, whatever
\* text its field holds.
C30_VerifiedStaysVerified ==
  [][/\ \A c \in Classifications :
          PanelOffered(c) <=> c \in {"scheduled", "upcoming", "live"}
     /\ (passcodeInputs'[PanelInterview] # passcodeInputs[PanelInterview]
           /\ passcodeInputs'[PanelInterview].set) \/ (lastJoin' # lastJoin /\ lastJoin'.called)
          => classification \in {"scheduled", "upcoming", "live"}
     /\ PanelInterview \in verifiedInterviews /\ lastJoin' # NoJoin
          => PanelInterview \in verifiedInterviews'
     /\ lastJoin'.called /\ lastJoin'.wasVerified => lastJoin'.opened
     /\ lastJoin'.called /\ lastJoin'.opened => PanelInterview \in verifiedInterviews']_vars

\* joinMeeting has opened the URL of a verified interview whose field held a
\* text that does not match the passcode.
C30_Witness ==
  /\ lastJoin.called /\ lastJoin.wasVerified /\ lastJoin.opened
  /\ toUpperCase(trim(lastJoin.input)) # toUpperCase(trim(passcode[PanelInterview]))
  /\ PanelInterview \in verifiedInterviews

====
